---- MODULE Spec2Model ----
(***************************************************************************)
(* A model of the ARMv7-A debug controller of probe-rs                     *)
(* (probe-rs/src/architecture/arm/core/armv7a.rs) together with the debug  *)
(* hardware it drives through the 32-bit memory interface.                 *)
(*                                                                         *)
(* Every public operation of the controller is one action.  The handlers   *)
(* are written as operators over a call state `s` (the session state, the  *)
(* instance fields, the hardware and the log of memory-interface accesses  *)
(* of the call) and return a result record [s, err, val]; `?` of the Rust  *)
(* source is the operator Try.                                             *)
(*                                                                         *)
(* 32-bit words are pairs <<hi, lo>> of 16-bit halves, so that u32         *)
(* arithmetic keeps its width; a u64 address is <<upper, word>>.           *)
(***************************************************************************)
EXTENDS Integers, Sequences, FiniteSets, TLC

----------------------------------------------------------------------------
(* Bounds of the model *)

\* the greatest number of DBGDSCR polls an instruction stays incomplete
MaxLat == 1
\* the greatest number of DBGDSCR reads that still see the core running
\* after an event that makes it halt
MaxHaltDelay == 2

----------------------------------------------------------------------------
(* 32-bit words *)

Half == 2^16

\* u32 wrapping addition / subtraction of a small constant
wrapping_add(w, n) ==
    LET t == w[2] + n
    IN  <<(w[1] + (t \div Half)) % Half, t % Half>>

wrapping_sub(w, n) ==
    LET t == w[2] - n
    IN  IF t >= 0 THEN <<w[1], t>> ELSE <<(w[1] - 1) % Half, t + Half>>

\* w < n for a small constant n
LessThan(w, n) == w[1] = 0 /\ w[2] < n

Zero32 == <<0, 0>>

\* "no value": the unit result, and an absent word
NoVal == <<>>

----------------------------------------------------------------------------
(* Inputs of the model: the values and register numbers the operations     *)
(* are called with.                                                        *)

\* 0x0001_0020 and 0x0002_0040
Vals == {<<1, 32>>, <<2, 64>>}

\* r0 (the scratch register), r14 (the last general register), PC, CPSR,
\* and 17, the first invalid register number
RegIds == {0, 14, 15, 16, 17}

\* target memory: two mapped words; every other address faults
RamBase == <<8192, 0>>
MemAddrs == {RamBase, wrapping_add(RamBase, 4)}

\* the words the target memory holds before the debugger writes them
MemReset(a) == <<255, a[2] + 1>>

\* the values the core's registers hold before the debugger writes them
RegReset(i) == IF i = 15 THEN <<0, 32768>> ELSE IF i = 16 THEN <<0, 467>> ELSE <<0, 256 + i>>

\* the target program: the address at which the core stops after it has run
\* (a two-instruction loop; the program writes no general register)
ProgramNext(pc) == IF pc = <<0, 32768>> THEN <<0, 32772>> ELSE <<0, 32768>>

HaltReasons == {"Request", "Breakpoint"}

----------------------------------------------------------------------------
(* The debug hardware: the core and its memory-mapped debug registers.     *)
(*                                                                         *)
(* h.lat and h.hd are the timing of the hardware during the current call:  *)
(* an instruction (and a restart) shows as complete after h.lat further    *)
(* DBGDSCR reads, and an event that makes the core halt shows after h.hd   *)
(* further DBGDSCR reads (-1: not during this call).                       *)
(*                                                                         *)
(* A word of DBGDTRRX or DBGDTRTX is kept until it is consumed (rxfull or  *)
(* txfull cleared); the controller reads neither register while its flag   *)
(* is clear, so the stale word the silicon keeps is not modelled.          *)

\* DBGDIDR.BRPS of the modelled core: two breakpoint units
Brps == 1
Units == 0 .. Brps

Dbgbcr0 == [e |-> FALSE, pmc |-> 0, hmc |-> FALSE, bas |-> 0, bt |-> 0]
Dbgdrcr0 == [hrq |-> FALSE, rrq |-> FALSE, cse |-> FALSE]

HwInit(halted) ==
    [halted |-> halted, moe |-> "Request", restarted |-> TRUE, itren |-> FALSE,
     busy |-> 0, rsBusy |-> 0, lat |-> 0, hd |-> -1, haltIn |-> -1,
     pendMoe |-> "Request", catch |-> FALSE,
     txfull |-> FALSE, rxfull |-> FALSE, dtrtx |-> Zero32, dtrrx |-> Zero32,
     sdabort |-> FALSE, adabort |-> FALSE,
     regs |-> [i \in 0 .. 16 |-> RegReset(i)],
     mem |-> [a \in MemAddrs |-> MemReset(a)],
     bvr |-> [u \in Units |-> Zero32],
     bcr |-> [u \in Units |-> Dbgbcr0]]

\* the core enters debug state: it has run, so the PC has moved on
EnterDebug(h) ==
    [h EXCEPT !.halted = TRUE, !.moe = h.pendMoe, !.haltIn = -1,
              !.regs[15] = ProgramNext(h.regs[15])]

\* time passes on the core, one DBGDSCR read long
CoreTick(h) ==
    IF ~h.halted /\ h.haltIn = 0 THEN EnterDebug(h)
    ELSE IF ~h.halted /\ h.haltIn > 0 THEN [h EXCEPT !.haltIn = @ - 1]
    ELSE h

\* the effect of one instruction issued through DBGITR on the halted core
ExecOnCore(h, i) ==
    CASE i.op = "MCR" -> [h EXCEPT !.dtrtx = h.regs[i.rd], !.txfull = TRUE]
      [] i.op = "MRC" -> [h EXCEPT !.regs[i.rd] = h.dtrrx, !.rxfull = FALSE,
                                   !.dtrrx = Zero32]
      [] i.op = "MOV" -> [h EXCEPT !.regs[i.rd] =
                             IF i.rm = 15 THEN wrapping_add(h.regs[15], 8) ELSE h.regs[i.rm]]
      [] i.op = "MRS" -> [h EXCEPT !.regs[i.rd] = h.regs[16]]
      [] i.op = "BX"  -> [h EXCEPT !.regs[15] = h.regs[i.rm]]
      [] i.op = "LDC" ->
            IF h.regs[i.rn] \in MemAddrs
            THEN [h EXCEPT !.dtrtx = h.mem[h.regs[i.rn]], !.txfull = TRUE,
                           !.regs[i.rn] = wrapping_add(@, i.imm)]
            ELSE [h EXCEPT !.sdabort = TRUE]
      [] i.op = "STC" ->
            IF h.regs[i.rn] \in MemAddrs
            THEN [h EXCEPT !.mem[h.regs[i.rn]] = h.dtrrx, !.rxfull = FALSE,
                           !.dtrrx = Zero32,
                           !.regs[i.rn] = wrapping_add(@, i.imm)]
            ELSE [h EXCEPT !.sdabort = TRUE]

\* a 32-bit read of a debug register: the hardware after it, and the value
HwRead(h, reg, idx) ==
    CASE reg = "DBGDSCR" ->
            LET t == CoreTick(h)
            IN  [h |-> [t EXCEPT !.busy = IF @ > 0 THEN @ - 1 ELSE 0,
                                 !.rsBusy = IF @ > 0 THEN @ - 1 ELSE 0],
                 val |-> [halted |-> t.halted, restarted |-> t.restarted /\ t.rsBusy = 0,
                          itren |-> t.itren, instrcoml_l |-> t.busy = 0,
                          txfull_l |-> t.txfull, rxfull_l |-> t.rxfull,
                          adabort_l |-> t.adabort, sdabort_l |-> t.sdabort,
                          moe |-> t.moe]]
      [] reg = "DBGDTRTX" ->
            [h |-> [h EXCEPT !.txfull = FALSE, !.dtrtx = Zero32], val |-> h.dtrtx]
      [] reg = "DBGDIDR" -> [h |-> h, val |-> [brps |-> Brps]]
      [] reg = "DBGBVR" -> [h |-> h, val |-> IF idx \in Units THEN h.bvr[idx] ELSE Zero32]
      [] reg = "DBGBCR" -> [h |-> h, val |-> IF idx \in Units THEN h.bcr[idx] ELSE Dbgbcr0]

\* a 32-bit write of a debug register
HwWrite(h, reg, idx, val) ==
    CASE reg = "DBGDSCR" -> [h EXCEPT !.itren = val.itren]
      [] reg = "DBGDTRRX" -> [h EXCEPT !.dtrrx = val, !.rxfull = TRUE]
      [] reg = "DBGITR" ->
            IF h.halted /\ h.itren /\ ~h.sdabort /\ ~h.adabort
            THEN [ExecOnCore(h, val) EXCEPT !.busy = h.lat]
            ELSE h
      [] reg = "DBGDRCR" ->
            LET a == IF val.cse THEN [h EXCEPT !.sdabort = FALSE, !.adabort = FALSE] ELSE h
                b == IF val.hrq /\ ~a.halted
                     THEN [a EXCEPT !.haltIn = a.hd, !.pendMoe = "Request"]
                     ELSE a
            IN  IF val.rrq /\ b.halted
                THEN [b EXCEPT !.halted = FALSE, !.restarted = TRUE, !.rsBusy = b.lat,
                               !.haltIn = b.hd, !.pendMoe = "Breakpoint"]
                ELSE b
      [] reg = "DBGBVR" -> IF idx \in Units THEN [h EXCEPT !.bvr[idx] = val] ELSE h
      [] reg = "DBGBCR" -> IF idx \in Units THEN [h EXCEPT !.bcr[idx] = val] ELSE h

----------------------------------------------------------------------------
(* The controller: results, the memory interface, session state *)

Ok(s, v) == [s |-> s, err |-> "Ok", val |-> v]
Err(s, e) == [s |-> s, err |-> e, val |-> NoVal]

\* Armv7aError::InvalidRegisterNumber(reg_num): the error carries the index
InvalidRegisterNumber(s, reg_num) ==
    [s |-> s, err |-> "InvalidRegisterNumber", val |-> reg_num]

\* the `?` operator: go on with K on success, return the error otherwise
Try(r, K(_)) == IF r.err = "Ok" THEN K(r) ELSE r

\* CoreStatus
Running == [st |-> "Running", reason |-> "None"]
Unknown == [st |-> "Unknown", reason |-> "None"]
Halted(reason) == [st |-> "Halted", reason |-> reason]
is_halted(cs) == cs.st = "Halted"

\* Option<(RegisterValue, bool)>
None == [some |-> FALSE, val |-> Zero32, dirty |-> FALSE]
Some(v, d) == [some |-> TRUE, val |-> v, dirty |-> d]

\* vec![None; 17]: slot i of the Rust vector is element i + 1 of the sequence
EmptyCache == [i \in 1 .. 17 |-> None]

\* memory.read_word_32(address) on a debug register: fails with a transport
\* error when s.fuse = 1 (the access at which the probe fails; 0: none)
MemRead(s, reg, idx) ==
    IF s.fuse = 1 THEN Err([s EXCEPT !.fuse = 0], "Transport")
    ELSE LET r == HwRead(s.hw, reg, idx)
         IN  Ok([s EXCEPT !.hw = r.h, !.fuse = IF @ > 1 THEN @ - 1 ELSE 0,
                          !.ops = Append(@, [rw |-> "R", reg |-> reg, idx |-> idx,
                                             val |-> r.val])],
                r.val)

\* memory.write_word_32(address, value) on a debug register
MemWrite(s, reg, idx, val) ==
    IF s.fuse = 1 THEN Err([s EXCEPT !.fuse = 0], "Transport")
    ELSE Ok([s EXCEPT !.hw = HwWrite(s.hw, reg, idx, val),
                      !.fuse = IF @ > 1 THEN @ - 1 ELSE 0,
                      !.ops = Append(@, [rw |-> "W", reg |-> reg, idx |-> idx,
                                         val |-> val])],
            NoVal)

\* the instruction encoder, by mnemonic and operands
build_mcr(coproc, opc1, reg, crn, crm, opc2) ==
    [op |-> "MCR", rd |-> reg, rm |-> 0, rn |-> 0, imm |-> 0]
build_mrc(coproc, opc1, reg, crn, crm, opc2) ==
    [op |-> "MRC", rd |-> reg, rm |-> 0, rn |-> 0, imm |-> 0]
build_ldc(coproc, crd, reg, imm) ==
    [op |-> "LDC", rd |-> 0, rm |-> 0, rn |-> reg, imm |-> imm]
build_stc(coproc, crd, reg, imm) ==
    [op |-> "STC", rd |-> 0, rm |-> 0, rn |-> reg, imm |-> imm]
build_mov(rd, rm) == [op |-> "MOV", rd |-> rd, rm |-> rm, rn |-> 0, imm |-> 0]
build_mrs(rd) == [op |-> "MRS", rd |-> rd, rm |-> 0, rn |-> 0, imm |-> 0]
build_bx(reg) == [op |-> "BX", rd |-> 0, rm |-> reg, rn |-> 0, imm |-> 0]

\* the number of DBGDSCR polls after which a flag the hardware has not set
\* will never be set: a loop that gets that far does not return ("Hang")
PollLimit == MaxLat + 1

\* `while !dbgdscr.flag() { dbgdscr = read DBGDSCR }`, d the snapshot so far
RECURSIVE PollDscr(_, _, _, _)
PollDscr(s, d, flag, fuel) ==
    IF d[flag] THEN Ok(s, d)
    ELSE IF fuel = 0 THEN Err(s, "Hang")
    ELSE Try(MemRead(s, "DBGDSCR", 0), LAMBDA r : PollDscr(r.s, r.val, flag, fuel - 1))

----------------------------------------------------------------------------
(* The instruction transfer engine *)

\* an abort handler that leaves the sticky bits set
clear_sticky_exceptions_skip(s) ==
    Ok(s, NoVal)

\* `dbgdrcr.set_cse(true); write DBGDRCR`
clear_sticky_exceptions(s) ==
    MemWrite(s, "DBGDRCR", 0, [Dbgdrcr0 EXCEPT !.cse = TRUE])

execute_instruction(s, instruction) ==
    IF ~is_halted(s.cs) THEN Err(s, "NotHalted")
    ELSE
    LET enable ==
            IF ~s.itr
            THEN Try(MemRead(s, "DBGDSCR", 0), LAMBDA r :
                 Try(MemWrite(r.s, "DBGDSCR", 0, [r.val EXCEPT !.itren = TRUE]), LAMBDA w :
                 Ok([w.s EXCEPT !.itr = TRUE], NoVal)))
            ELSE Ok(s, NoVal)
    IN  Try(enable, LAMBDA a :
        Try(MemWrite(a.s, "DBGITR", 0, instruction), LAMBDA b :
        Try(MemRead(b.s, "DBGDSCR", 0), LAMBDA c :
        Try(PollDscr(c.s, c.val, "instrcoml_l", PollLimit), LAMBDA d :
            IF d.val.adabort_l \/ d.val.sdabort_l
            THEN Try(clear_sticky_exceptions(d.s), LAMBDA e : Err(e.s, "DataAbort"))
            ELSE Ok(d.s, d.val)))))

execute_instruction_with_result(s, instruction) ==
    Try(execute_instruction(s, instruction), LAMBDA a :
    Try(PollDscr(a.s, a.val, "txfull_l", PollLimit), LAMBDA b :
        MemRead(b.s, "DBGDTRTX", 0)))

\* an input transfer that issues the instruction before it moves the value
execute_instruction_with_input_itr_first(s, instruction, value) ==
    Try(execute_instruction(s, instruction), LAMBDA d :
    Try(MemWrite(d.s, "DBGDTRRX", 0, value), LAMBDA a :
    Try(MemRead(a.s, "DBGDSCR", 0), LAMBDA b :
    Try(PollDscr(b.s, b.val, "rxfull_l", PollLimit), LAMBDA c : Ok(c.s, NoVal)))))

execute_instruction_with_input(s, instruction, value) ==
    Try(MemWrite(s, "DBGDTRRX", 0, value), LAMBDA a :
    Try(MemRead(a.s, "DBGDSCR", 0), LAMBDA b :
    Try(PollDscr(b.s, b.val, "rxfull_l", PollLimit), LAMBDA c :
    Try(execute_instruction(c.s, instruction), LAMBDA d : Ok(d.s, NoVal)))))

\* a reset of the cache that leaves every slot as it is
reset_register_cache_skip(s) ==
    s

reset_register_cache(s) ==
    [s EXCEPT !.cache = EmptyCache]

\* the loop of writeback_registers from slot i on
RECURSIVE writeback_from(_, _)
writeback_from(s, i) ==
    IF i >= Len(s.cache) THEN Ok(reset_register_cache(s), NoVal)
    ELSE IF s.cache[i + 1].some /\ s.cache[i + 1].dirty
    THEN CASE i \in 0 .. 14 ->
                Try(execute_instruction_with_input(s, build_mrc(14, 0, i, 0, 5, 0),
                                                   s.cache[i + 1].val),
                    LAMBDA r : writeback_from(r.s, i + 1))
           [] i = 15 ->
                Try(execute_instruction_with_input(s, build_mrc(14, 0, 0, 0, 5, 0),
                                                   s.cache[i + 1].val), LAMBDA r :
                Try(execute_instruction(r.s, build_bx(0)), LAMBDA q :
                    writeback_from(q.s, i + 1)))
           [] OTHER -> Err(s, "Panic")
    ELSE writeback_from(s, i + 1)

\* a writeback that leaves the cache as it found it
writeback_registers_keep(s) ==
    LET r == writeback_from(s, 0)
    IN  IF r.err = "Ok" THEN Ok([r.s EXCEPT !.cache = s.cache], NoVal) ELSE r

writeback_registers(s) ==
    writeback_from(s, 0)

RECURSIVE read_core_reg(_, _)

prepare_r0_for_clobber(s) ==
    IF ~s.cache[1].some
    THEN Try(read_core_reg(s, 0), LAMBDA r :
             Ok([r.s EXCEPT !.cache[1] = Some(r.val, TRUE)], NoVal))
    ELSE Ok(s, NoVal)

set_r0(s, value) ==
    execute_instruction_with_input(s, build_mrc(14, 0, 0, 0, 5, 0), value)

\* `pra_plus_offset - 8` on u32: with overflow checks (a debug build) the
\* subtraction panics when it underflows, without them it wraps
pc_minus_8(s, w) ==
    IF LessThan(w, 8) /\ s.overflow_checks THEN Err(s, "Panic")
    ELSE Ok(s, wrapping_sub(w, 8))

\* a read that does not keep the value it has read
cache_read_value_drop(s, reg_num, value) ==
    s

\* `self.state.register_cache[reg_num] = Some((value, false))`
cache_read_value(s, reg_num, value) ==
    [s EXCEPT !.cache[reg_num + 1] = Some(value, FALSE)]

read_core_reg(s, reg_num) ==
    IF reg_num < Len(s.cache) /\ s.cache[reg_num + 1].some
    THEN Ok(s, s.cache[reg_num + 1].val)
    ELSE
    LET result ==
            CASE reg_num \in 0 .. 14 ->
                    execute_instruction_with_result(s, build_mcr(14, 0, reg_num, 0, 5, 0))
              [] reg_num = 15 ->
                    Try(prepare_r0_for_clobber(s), LAMBDA a :
                    Try(execute_instruction(a.s, build_mov(0, 15)), LAMBDA b :
                    Try(execute_instruction_with_result(b.s, build_mcr(14, 0, 0, 0, 5, 0)),
                        LAMBDA c : pc_minus_8(c.s, c.val))))
              [] reg_num = 16 ->
                    Try(prepare_r0_for_clobber(s), LAMBDA a :
                    Try(execute_instruction(a.s, build_mrs(0)), LAMBDA b :
                        execute_instruction_with_result(b.s, build_mcr(14, 0, 0, 0, 5, 0))))
              [] OTHER -> InvalidRegisterNumber(s, reg_num)
    IN  IF result.err = "Ok"
        THEN Ok(cache_read_value(result.s, reg_num, result.val), result.val)
        ELSE result

\* a write whose bound on the index is off by one
write_core_reg_off_by_one(s, reg_num, value) ==
    IF reg_num > Len(s.cache) THEN InvalidRegisterNumber(s, reg_num)
    ELSE Ok([s EXCEPT !.cache[IF reg_num < Len(s.cache) THEN reg_num + 1 ELSE Len(s.cache)]
                          = Some(value, TRUE)], NoVal)

\* a write that does not mark the slot for writeback
write_core_reg_clean(s, reg_num, value) ==
    IF reg_num >= Len(s.cache) THEN InvalidRegisterNumber(s, reg_num)
    ELSE Ok([s EXCEPT !.cache[reg_num + 1] = Some(value, FALSE)], NoVal)

write_core_reg(s, reg_num, value) ==
    IF reg_num >= Len(s.cache) THEN InvalidRegisterNumber(s, reg_num)
    ELSE Ok([s EXCEPT !.cache[reg_num + 1] = Some(value, TRUE)], NoVal)

----------------------------------------------------------------------------
(* The CoreInterface operations *)

\* the number of polls (one per millisecond slept) that fit into a timeout;
\* a timeout is given as that number
RECURSIVE wait_loop(_, _)
wait_loop(s, left) ==
    IF left = 0 THEN Err(s, "Timeout")
    ELSE Try(MemRead(s, "DBGDSCR", 0), LAMBDA r :
             IF r.val.halted THEN Ok(r.s, NoVal) ELSE wait_loop(r.s, left - 1))

\* a wait that polls once before it looks at the time
wait_for_core_halted_poll_first(s, timeout) ==
    wait_loop(s, timeout + 1)

wait_for_core_halted(s, timeout) ==
    wait_loop(s, timeout)

core_halted(s) ==
    Try(MemRead(s, "DBGDSCR", 0), LAMBDA r : Ok(r.s, r.val.halted))

\* Dbgdscr::halt_reason(): the halt reason of the method-of-entry field
halt_reason(dbgdscr) == dbgdscr.moe

\* a status that returns what it read and leaves current_state alone
status_keep_state(s) ==
    Try(MemRead(s, "DBGDSCR", 0), LAMBDA r :
        IF r.val.halted
        THEN Ok(r.s, Halted(halt_reason(r.val)))
        ELSE Ok(r.s, Running))

status(s) ==
    Try(MemRead(s, "DBGDSCR", 0), LAMBDA r :
        IF r.val.halted
        THEN Ok([r.s EXCEPT !.cs = Halted(halt_reason(r.val))], Halted(halt_reason(r.val)))
        ELSE Ok([r.s EXCEPT !.cs = Running], Running))

\* a halt that requests the halt whatever current_state is
halt_always_request(s, timeout) ==
    Try(MemWrite(s, "DBGDRCR", 0, [Dbgdrcr0 EXCEPT !.hrq = TRUE]), LAMBDA a :
    Try(wait_for_core_halted(a.s, timeout), LAMBDA b :
    Try(status(reset_register_cache(b.s)), LAMBDA d :
        read_core_reg(d.s, 15))))

halt(s, timeout) ==
    LET request ==
            IF ~is_halted(s.cs)
            THEN Try(MemWrite(s, "DBGDRCR", 0, [Dbgdrcr0 EXCEPT !.hrq = TRUE]), LAMBDA a :
                 Try(wait_for_core_halted(a.s, timeout), LAMBDA b :
                     Ok(reset_register_cache(b.s), NoVal)))
            ELSE Ok(s, NoVal)
    IN  Try(request, LAMBDA c :
        Try(status(c.s), LAMBDA d :
            read_core_reg(d.s, 15)))

\* `loop { if read DBGDSCR .restarted() { break } }`
RECURSIVE restart_loop(_, _)
restart_loop(s, fuel) ==
    Try(MemRead(s, "DBGDSCR", 0), LAMBDA r :
        IF r.val.restarted THEN Ok(r.s, NoVal)
        ELSE IF fuel = 0 THEN Err(r.s, "Hang")
        ELSE restart_loop(r.s, fuel - 1))

\* a run that writes the restart request before the write-back
run_resume_first(s) ==
    IF s.cs = Running THEN Ok(s, NoVal)
    ELSE Try(MemWrite(s, "DBGDRCR", 0, [Dbgdrcr0 EXCEPT !.rrq = TRUE]), LAMBDA b :
         Try(writeback_registers(b.s), LAMBDA a :
         Try(restart_loop(a.s, PollLimit), LAMBDA c :
         Try(status([c.s EXCEPT !.cs = Running]), LAMBDA d : Ok(d.s, NoVal)))))

\* a run that resumes whatever current_state is
run_unconditional(s) ==
    Try(writeback_registers(s), LAMBDA a :
    Try(MemWrite(a.s, "DBGDRCR", 0, [Dbgdrcr0 EXCEPT !.rrq = TRUE]), LAMBDA b :
    Try(restart_loop(b.s, PollLimit), LAMBDA c :
    Try(status([c.s EXCEPT !.cs = Running]), LAMBDA d : Ok(d.s, NoVal)))))

\* a run that empties the cache when the write-back fails
run_discard_on_error(s) ==
    IF s.cs = Running THEN Ok(s, NoVal)
    ELSE LET a == writeback_registers(s)
         IN  IF a.err # "Ok" THEN [a EXCEPT !.s = reset_register_cache(a.s)]
             ELSE Try(MemWrite(a.s, "DBGDRCR", 0, [Dbgdrcr0 EXCEPT !.rrq = TRUE]), LAMBDA b :
                  Try(restart_loop(b.s, PollLimit), LAMBDA c :
                  Try(status([c.s EXCEPT !.cs = Running]), LAMBDA d : Ok(d.s, NoVal))))

run(s) ==
    IF s.cs = Running THEN Ok(s, NoVal)
    ELSE Try(writeback_registers(s), LAMBDA a :
         Try(MemWrite(a.s, "DBGDRCR", 0, [Dbgdrcr0 EXCEPT !.rrq = TRUE]), LAMBDA b :
         Try(restart_loop(b.s, PollLimit), LAMBDA c :
         Try(status([c.s EXCEPT !.cs = Running]), LAMBDA d : Ok(d.s, NoVal)))))

\* the ArmDebugSequence hooks: a system reset restarts the core from its
\* reset state; with reset catch set the core halts again after the reset
SeqCall(name) == [rw |-> "SEQ", reg |-> name, idx |-> 0, val |-> NoVal]

CoreReset(h) ==
    [h EXCEPT !.regs = [i \in 0 .. 16 |-> RegReset(i)],
              !.halted = FALSE, !.restarted = TRUE,
              !.haltIn = IF h.catch THEN h.hd ELSE -1, !.pendMoe = "Request",
              !.busy = 0, !.rsBusy = 0,
              !.txfull = FALSE, !.rxfull = FALSE,
              !.sdabort = FALSE, !.adabort = FALSE]

reset_system(s) ==
    Ok([s EXCEPT !.hw = CoreReset(s.hw), !.ops = Append(@, SeqCall("reset_system"))], NoVal)

reset_catch_set(s) ==
    Ok([s EXCEPT !.hw.catch = TRUE, !.ops = Append(@, SeqCall("reset_catch_set"))], NoVal)

reset_catch_clear(s) ==
    Ok([s EXCEPT !.hw.catch = FALSE, !.ops = Append(@, SeqCall("reset_catch_clear"))], NoVal)

reset(s) ==
    Try(reset_system(s), LAMBDA a : Ok(reset_register_cache(a.s), NoVal))

\* a reset-and-halt that reads the PC without resetting the cache first
reset_and_halt_cached_pc(s, timeout) ==
    Try(reset_catch_set(s), LAMBDA a :
    Try(reset_system(a.s), LAMBDA b :
    Try(MemWrite(b.s, "DBGDRCR", 0, [Dbgdrcr0 EXCEPT !.hrq = TRUE]), LAMBDA c :
    Try(reset_catch_clear(c.s), LAMBDA d :
    Try(wait_for_core_halted(d.s, timeout), LAMBDA e :
    Try(status(e.s), LAMBDA f :
        read_core_reg(f.s, 15)))))))

reset_and_halt(s, timeout) ==
    Try(reset_catch_set(s), LAMBDA a :
    Try(reset_system(a.s), LAMBDA b :
    Try(MemWrite(b.s, "DBGDRCR", 0, [Dbgdrcr0 EXCEPT !.hrq = TRUE]), LAMBDA c :
    Try(reset_catch_clear(c.s), LAMBDA d :
    Try(wait_for_core_halted(d.s, timeout), LAMBDA e :
    Try(status(e.s), LAMBDA f :
        read_core_reg(reset_register_cache(f.s), 15)))))))

on_session_stop(s) ==
    IF is_halted(s.cs) THEN writeback_registers(s) ELSE Ok(s, NoVal)

\* a constructor that polls DBGDSCR whatever the session state says
new_always_poll(s) ==
    Try(MemRead(s, "DBGDSCR", 0), LAMBDA r :
        Ok([r.s EXCEPT !.cs = IF r.val.halted THEN Halted(halt_reason(r.val)) ELSE Running,
                       !.cache = EmptyCache, !.init = TRUE,
                       !.nbp = <<>>, !.itr = FALSE], NoVal))

\* Armv7a::new against the session state
new(s) ==
    LET attach ==
            IF ~s.init
            THEN Try(MemRead(s, "DBGDSCR", 0), LAMBDA r :
                     Ok([r.s EXCEPT !.cs = IF r.val.halted THEN Halted(halt_reason(r.val))
                                           ELSE Running,
                                    !.cache = EmptyCache,
                                    !.init = TRUE], NoVal))
            ELSE Ok(s, NoVal)
    IN  Try(attach, LAMBDA a : Ok([a.s EXCEPT !.nbp = <<>>, !.itr = FALSE], NoVal))

available_breakpoint_units(s) ==
    IF s.nbp = <<>>
    THEN Try(MemRead(s, "DBGDIDR", 0), LAMBDA r :
             Ok([r.s EXCEPT !.nbp = <<r.val.brps + 1>>], r.val.brps + 1))
    ELSE Ok(s, s.nbp[1])

\* the number of polls that fit into the 100 ms step() waits
StepTimeout == MaxHaltDelay + 1

\* the control word of step(): address mismatch, all modes, all bytes, enabled
StepBcr == [bt |-> 4, hmc |-> TRUE, pmc |-> 3, bas |-> 15, e |-> TRUE]

step(s) ==
    Try(available_breakpoint_units(s), LAMBDA n :
    Try(MemRead(n.s, "DBGBVR", n.val - 1), LAMBDA saved_bp_value :
    Try(MemRead(saved_bp_value.s, "DBGBCR", n.val - 1), LAMBDA saved_bp_control :
    Try(read_core_reg(saved_bp_control.s, 15), LAMBDA current_pc :
    Try(MemWrite(current_pc.s, "DBGBVR", n.val - 1, current_pc.val), LAMBDA a :
    Try(MemWrite(a.s, "DBGBCR", n.val - 1, StepBcr), LAMBDA b :
    Try(run(b.s), LAMBDA c :
    Try(wait_for_core_halted(c.s, StepTimeout), LAMBDA d :
    Try(MemWrite(d.s, "DBGBVR", n.val - 1, saved_bp_value.val), LAMBDA e :
    Try(MemWrite(e.s, "DBGBCR", n.val - 1, saved_bp_control.val), LAMBDA f :
        read_core_reg(f.s, 15)))))))))))

----------------------------------------------------------------------------
(* The MemoryInterface operations.  A u64 address is <<upper, word>>:      *)
(* its upper and its lower 32 bits.                                        *)

\* crate::memory::valid_32_address
valid_32_address(s, address) ==
    IF address[1] > 0 THEN Err(s, "InvalidAddress") ELSE Ok(s, address[2])

\* a read that takes the address from whatever R0 holds
read_word_32_keep_r0(s, address) ==
    Try(valid_32_address(s, address), LAMBDA a :
    Try(prepare_r0_for_clobber(a.s), LAMBDA b :
        execute_instruction_with_result(b.s, build_ldc(14, 5, 0, 4))))

read_word_32(s, address) ==
    Try(valid_32_address(s, address), LAMBDA a :
    Try(prepare_r0_for_clobber(a.s), LAMBDA b :
    Try(set_r0(b.s, a.val), LAMBDA c :
        execute_instruction_with_result(c.s, build_ldc(14, 5, 0, 4)))))

\* a write that saves R0 before it looks at the address
write_word_32_late_validation(s, address, data) ==
    Try(prepare_r0_for_clobber(s), LAMBDA b :
    Try(valid_32_address(b.s, address), LAMBDA a :
    Try(set_r0(a.s, a.val), LAMBDA c :
        execute_instruction_with_input(c.s, build_stc(14, 5, 0, 4), data))))

write_word_32(s, address, data) ==
    Try(valid_32_address(s, address), LAMBDA a :
    Try(prepare_r0_for_clobber(a.s), LAMBDA b :
    Try(set_r0(b.s, a.val), LAMBDA c :
        execute_instruction_with_input(c.s, build_stc(14, 5, 0, 4), data))))

\* u32::to_le_bytes and u32::from_le_bytes; byte k of the Rust array is
\* element k + 1 of the sequence
to_le_bytes(w) == <<w[2] % 256, w[2] \div 256, w[1] % 256, w[1] \div 256>>
from_le_bytes(b) == <<b[3] + 256 * b[4], b[1] + 256 * b[2]>>

\* `address + n` on u64, for a small n
add_u64(address, n) ==
    LET t == address[2][2] + n
        h == address[2][1] + (t \div Half)
    IN  <<address[1] + (h \div Half), <<h % Half, t % Half>>>>

\* `address % 4` and `address - byte_offset`
byte_offset(address) == address[2][2] % 4
word_start(address) ==
    <<address[1], <<address[2][1], address[2][2] - byte_offset(address)>>>>

\* a u64 value is the pair <<high 32 bits, low 32 bits>>
read_word_64(s, address) ==
    Try(read_word_32(s, address), LAMBDA low :
    Try(read_word_32(low.s, add_u64(address, 4)), LAMBDA high :
        Ok(high.s, <<high.val, low.val>>)))

\* a 64-bit write that stores the high word first
write_word_64_high_first(s, address, data) ==
    Try(write_word_32(s, add_u64(address, 4), data[1]), LAMBDA high :
        write_word_32(high.s, address, data[2]))

write_word_64(s, address, data) ==
    LET data_low == data[2]
        data_high == data[1]
    IN  Try(write_word_32(s, address, data_low), LAMBDA low :
            write_word_32(low.s, add_u64(address, 4), data_high))

\* a byte read that passes the address on as it is
read_word_8_unaligned(s, address) ==
    Try(read_word_32(s, address), LAMBDA data :
        Ok(data.s, to_le_bytes(data.val)[byte_offset(address) + 1]))

\* a byte read that always returns the first byte of the word
read_word_8_first_byte(s, address) ==
    Try(read_word_32(s, word_start(address)), LAMBDA data :
        Ok(data.s, to_le_bytes(data.val)[1]))

read_word_8(s, address) ==
    Try(read_word_32(s, word_start(address)), LAMBDA data :
        Ok(data.s, to_le_bytes(data.val)[byte_offset(address) + 1]))

\* a byte write that patches a word of zeroes instead of the word it read
write_word_8_blank(s, address, data) ==
    Try(read_word_32(s, word_start(address)), LAMBDA current_word :
        write_word_32(current_word.s, word_start(address),
                      from_le_bytes([to_le_bytes(Zero32)
                                         EXCEPT ![byte_offset(address) + 1] = data])))

write_word_8(s, address, data) ==
    Try(read_word_32(s, word_start(address)), LAMBDA current_word :
        write_word_32(current_word.s, word_start(address),
                      from_le_bytes([to_le_bytes(current_word.val)
                                         EXCEPT ![byte_offset(address) + 1] = data])))

\* the loops of the bulk accesses from element i on; buf is what has been
\* read so far
RECURSIVE read_32_from(_, _, _, _, _)
read_32_from(s, address, len, i, buf) ==
    IF i >= len THEN Ok(s, buf)
    ELSE Try(read_word_32(s, add_u64(address, i * 4)), LAMBDA word :
             read_32_from(word.s, address, len, i + 1, Append(buf, word.val)))

read_32(s, address, len) == read_32_from(s, address, len, 0, <<>>)

RECURSIVE read_8_from(_, _, _, _, _)
read_8_from(s, address, len, i, buf) ==
    IF i >= len THEN Ok(s, buf)
    ELSE Try(read_word_8(s, add_u64(address, i)), LAMBDA byte :
             read_8_from(byte.s, address, len, i + 1, Append(buf, byte.val)))

read_8(s, address, len) == read_8_from(s, address, len, 0, <<>>)

RECURSIVE write_32_from(_, _, _, _)
write_32_from(s, address, data, i) ==
    IF i >= Len(data) THEN Ok(s, NoVal)
    ELSE Try(write_word_32(s, add_u64(address, i * 4), data[i + 1]), LAMBDA w :
             write_32_from(w.s, address, data, i + 1))

write_32(s, address, data) == write_32_from(s, address, data, 0)

RECURSIVE write_8_from(_, _, _, _)
write_8_from(s, address, data, i) ==
    IF i >= Len(data) THEN Ok(s, NoVal)
    ELSE Try(write_word_8(s, add_u64(address, i * 4), data[i + 1]), LAMBDA w :
             write_8_from(w.s, address, data, i + 1))

write_8(s, address, data) == write_8_from(s, address, data, 0)

----------------------------------------------------------------------------
(* Hardware breakpoints *)

\* the control word of set_hw_breakpoint: address match, all modes, all
\* bytes, enabled
BpBcr == [bt |-> 0, hmc |-> TRUE, pmc |-> 3, bas |-> 15, e |-> TRUE]

\* a set_hw_breakpoint that writes the control word before the value
set_hw_breakpoint_control_first(s, bp_unit_index, addr) ==
    Try(valid_32_address(s, addr), LAMBDA a :
    Try(MemWrite(a.s, "DBGBCR", bp_unit_index, BpBcr), LAMBDA b :
        MemWrite(b.s, "DBGBVR", bp_unit_index, a.val)))

set_hw_breakpoint(s, bp_unit_index, addr) ==
    Try(valid_32_address(s, addr), LAMBDA a :
    Try(MemWrite(a.s, "DBGBVR", bp_unit_index, a.val), LAMBDA b :
        MemWrite(b.s, "DBGBCR", bp_unit_index, BpBcr)))

\* a clear that leaves the control word as it is
clear_hw_breakpoint_value_only(s, bp_unit_index) ==
    MemWrite(s, "DBGBVR", bp_unit_index, Zero32)

clear_hw_breakpoint(s, bp_unit_index) ==
    Try(MemWrite(s, "DBGBVR", bp_unit_index, Zero32), LAMBDA a :
        MemWrite(a.s, "DBGBCR", bp_unit_index, Dbgbcr0))

\* Option<u64> of a breakpoint entry: <<>> is None, <<a>> is Some(a)
RECURSIVE hw_breakpoints_from(_, _, _, _)
hw_breakpoints_from(s, num_hw_breakpoints, bp_unit_index, breakpoints) ==
    IF bp_unit_index >= num_hw_breakpoints THEN Ok(s, breakpoints)
    ELSE Try(MemRead(s, "DBGBVR", bp_unit_index), LAMBDA bp_value :
         Try(MemRead(bp_value.s, "DBGBCR", bp_unit_index), LAMBDA bp_control :
             hw_breakpoints_from(bp_control.s, num_hw_breakpoints, bp_unit_index + 1,
                                 Append(breakpoints,
                                        IF bp_control.val.e THEN <<<<0, bp_value.val>>>>
                                        ELSE <<>>))))

\* a hw_breakpoints that reads the unit count from DBGDIDR on every call
hw_breakpoints_recount(s) ==
    Try(available_breakpoint_units([s EXCEPT !.nbp = <<>>]), LAMBDA n :
        hw_breakpoints_from(n.s, n.val, 0, <<>>))

hw_breakpoints(s) ==
    Try(available_breakpoint_units(s), LAMBDA n :
        hw_breakpoints_from(n.s, n.val, 0, <<>>))

----------------------------------------------------------------------------
(* State *)

VARIABLES
    initialized,       \* CortexAState.initialized
    current_state,     \* CortexAState.current_state
    register_cache,    \* CortexAState.register_cache
    attached,          \* an Armv7a instance exists
    itr_enabled,       \* Armv7a.itr_enabled
    num_breakpoints,   \* Armv7a.num_breakpoints: <<>> is None, <<n>> is Some(n)
    overflow_checks,   \* the build panics on integer overflow (a debug build)
    hw,                \* the core and its debug registers
    ops,               \* the memory-interface accesses of the last call, in order
    last,              \* the last call: operation, arguments, result
    rt                 \* history: progress of a write_core_reg; run; halt; read_core_reg

vars == <<initialized, current_state, register_cache, attached, itr_enabled,
          num_breakpoints, overflow_checks, hw, ops, last, rt>>

\* the timeouts halt and reset_and_halt are called with: zero and one long
\* enough for a core that halts to be seen halted
Timeouts == {0, MaxHaltDelay + 1}

\* u64 addresses: a mapped word, an unmapped one, and one beyond 32 bits
Addrs == {<<0, RamBase>>, <<0, <<16384, 0>>>>, <<1, RamBase>>}

\* the register argument of a call that has none
NoReg == Len(EmptyCache) + 1

Call(op, reg, arg, r) ==
    [op |-> op, reg |-> reg, arg |-> arg, err |-> r.err,
     ret |-> IF r.err = "Ok" /\ op \in {"read_core_reg", "halt", "reset_and_halt", "step",
                                       "read_word_32", "read_word_8", "read_8", "read_32",
                                       "read_word_64",
                                       "core_halted",
                                       "available_breakpoint_units", "hw_breakpoints"}
             THEN r.val ELSE NoVal,
     retcs |-> IF r.err = "Ok" /\ op = "status" THEN r.val ELSE Unknown,
     \* what the error carries
     info |-> IF r.err = "InvalidRegisterNumber" THEN <<r.val>> ELSE NoVal,
     \* a read_core_reg that directly follows a successful one of the same register
     again |-> op = "read_core_reg" /\ last.op = "read_core_reg" /\ last.reg = reg
               /\ last.err = "Ok",
     \* a call that directly follows one that failed with DataAbort
     after_abort |-> last.err = "DataAbort",
     \* the unit of set_hw_breakpoint(u, a); clear_hw_breakpoint(u), both
     \* successful: on the clear, and on a hw_breakpoints that directly follows
     set_then_cleared |->
         IF op = "clear_hw_breakpoint" /\ r.err = "Ok" /\ last.op = "set_hw_breakpoint"
            /\ last.err = "Ok" /\ last.reg = reg
         THEN <<reg>>
         ELSE IF op = "hw_breakpoints" /\ last.op = "clear_hw_breakpoint"
         THEN last.set_then_cleared
         ELSE <<>>]

\* the call state at entry, the hardware timed by lat and hd during the call
St(lat, hd) ==
    [cs |-> current_state, cache |-> register_cache, init |-> initialized,
     itr |-> itr_enabled, nbp |-> num_breakpoints, overflow_checks |-> overflow_checks,
     hw |-> [hw EXCEPT !.lat = lat, !.hd = hd], ops |-> <<>>, fuse |-> 0]

\* between calls the hardware has finished what it was doing
Settle(h) ==
    [h EXCEPT !.lat = 0, !.hd = -1, !.haltIn = -1, !.pendMoe = "Request",
              !.busy = 0, !.rsBusy = 0]

\* the history of the round trip write_core_reg(r, v); run(); halt(); read_core_reg(r)
RtIdle == [phase |-> 0, reg |-> NoReg, val |-> NoVal]

RtNext(c) ==
    IF c.op = "write_core_reg" /\ c.err = "Ok" /\ c.reg \in 0 .. 14
       /\ is_halted(current_state) /\ hw.halted
    THEN [phase |-> 1, reg |-> c.reg, val |-> c.arg]
    ELSE IF rt.phase = 1 /\ c.op = "run" /\ c.err = "Ok" THEN [rt EXCEPT !.phase = 2]
    ELSE IF rt.phase = 2 /\ c.op = "halt" /\ c.err = "Ok" THEN [rt EXCEPT !.phase = 3]
    ELSE IF rt.phase = 3 /\ c.op = "read_core_reg" /\ c.reg = rt.reg
    THEN [rt EXCEPT !.phase = 4]
    ELSE RtIdle

\* a call returns (or panics, or hangs): the state it leaves
Commit(op, reg, arg, r) ==
    /\ initialized' = r.s.init
    /\ current_state' = r.s.cs
    /\ register_cache' = r.s.cache
    /\ itr_enabled' = r.s.itr
    /\ num_breakpoints' = r.s.nbp
    /\ hw' = Settle(r.s.hw)
    /\ ops' = r.s.ops
    /\ last' = Call(op, reg, arg, r)
    /\ rt' = RtNext(Call(op, reg, arg, r))
    /\ UNCHANGED overflow_checks

NoCall == [op |-> "none", reg |-> NoReg, arg |-> NoVal, err |-> "Ok", ret |-> NoVal,
           retcs |-> Unknown, info |-> NoVal, again |-> FALSE, after_abort |-> FALSE,
           set_then_cleared |-> <<>>]

\* the state Armv7a::new leaves on a fresh session: one DBGDSCR read decides
\* current_state, the cache is 17 empty slots (new, of a hardware that is
\* halted because the debugger asked, or running)
InitAttached(halted) ==
    /\ initialized = TRUE
    /\ current_state = (IF halted THEN Halted("Request") ELSE Running)
    /\ register_cache = EmptyCache
    /\ attached = TRUE
    /\ itr_enabled = FALSE
    /\ num_breakpoints = <<>>
    /\ hw = HwInit(halted)
    /\ ops = <<>>
    /\ last = NoCall
    /\ rt = RtIdle

Init ==
    /\ overflow_checks = FALSE
    /\ \E halted \in BOOLEAN : InitAttached(halted)

\* CortexAState::new: the session state before any controller was
\* constructed, the core halted or running
InitFresh ==
    /\ overflow_checks = FALSE
    /\ initialized = FALSE
    /\ current_state = Unknown
    /\ register_cache = <<>>
    /\ attached = FALSE
    /\ itr_enabled = FALSE
    /\ num_breakpoints = <<>>
    /\ \E halted \in BOOLEAN : hw = HwInit(halted)
    /\ ops = <<>>
    /\ last = NoCall
    /\ rt = RtIdle

\* a panic ends the process, a hang never returns
Dead == last.err \in {"Panic", "Hang"}
Live == attached /\ ~Dead

----------------------------------------------------------------------------
(* Actions: one per operation.  Their parameters are the sets the inputs   *)
(* and the hardware timing of the call are drawn from.                     *)

Lats == 0 .. MaxLat
HaltDelays == -1 .. MaxHaltDelay

ReadCoreReg(Regs, L) ==
    /\ Live
    /\ \E reg \in Regs, lat \in L :
          Commit("read_core_reg", reg, NoVal, read_core_reg(St(lat, -1), reg))
    /\ UNCHANGED attached

WriteCoreReg(Regs, V) ==
    /\ Live
    /\ \E reg \in Regs, v \in V :
          Commit("write_core_reg", reg, v, write_core_reg(St(0, -1), reg, v))
    /\ UNCHANGED attached

Halt(T, L, H) ==
    /\ Live
    /\ \E timeout \in T, lat \in L, hd \in H :
          Commit("halt", NoReg, <<timeout>>, halt(St(lat, hd), timeout))
    /\ UNCHANGED attached

Run(L, H) ==
    /\ Live
    /\ \E lat \in L, hd \in H :
          Commit("run", NoReg, NoVal, run(St(lat, hd)))
    /\ UNCHANGED attached

Reset ==
    /\ Live
    /\ Commit("reset", NoReg, NoVal, reset(St(0, -1)))
    /\ UNCHANGED attached

ResetAndHalt(T, L, H) ==
    /\ Live
    /\ \E timeout \in T, lat \in L, hd \in H :
          Commit("reset_and_halt", NoReg, NoVal, reset_and_halt(St(lat, hd), timeout))
    /\ UNCHANGED attached

Step(L, H) ==
    /\ Live
    /\ \E lat \in L, hd \in H :
          Commit("step", NoReg, NoVal, step(St(lat, hd)))
    /\ UNCHANGED attached

Status ==
    /\ Live
    /\ Commit("status", NoReg, NoVal, status(St(0, -1)))
    /\ UNCHANGED attached

OnSessionStop(L) ==
    /\ Live
    /\ \E lat \in L :
          Commit("on_session_stop", NoReg, NoVal, on_session_stop(St(lat, -1)))
    /\ UNCHANGED attached

ReadWord32(A, L) ==
    /\ Live
    /\ \E a \in A, lat \in L :
          Commit("read_word_32", NoReg, a, read_word_32(St(lat, -1), a))
    /\ UNCHANGED attached

WriteWord32(A, V, L) ==
    /\ Live
    /\ \E a \in A, d \in V, lat \in L :
          Commit("write_word_32", NoReg, <<a, d>>, write_word_32(St(lat, -1), a, d))
    /\ UNCHANGED attached

ReadWord64(A, L) ==
    /\ Live
    /\ \E a \in A, lat \in L :
          Commit("read_word_64", NoReg, a, read_word_64(St(lat, -1), a))
    /\ UNCHANGED attached

WriteWord64(A, D, L) ==
    /\ Live
    /\ \E a \in A, d \in D, lat \in L :
          Commit("write_word_64", NoReg, <<a, d>>, write_word_64(St(lat, -1), a, d))
    /\ UNCHANGED attached

ReadWord8(A, L) ==
    /\ Live
    /\ \E a \in A, lat \in L :
          Commit("read_word_8", NoReg, a, read_word_8(St(lat, -1), a))
    /\ UNCHANGED attached

WriteWord8(A, B, L) ==
    /\ Live
    /\ \E a \in A, d \in B, lat \in L :
          Commit("write_word_8", NoReg, <<a, d>>, write_word_8(St(lat, -1), a, d))
    /\ UNCHANGED attached

\* read_32 and read_8 with a buffer of n elements
Read32(A, N, L) ==
    /\ Live
    /\ \E a \in A, n \in N, lat \in L :
          Commit("read_32", NoReg, <<a, n>>, read_32(St(lat, -1), a, n))
    /\ UNCHANGED attached

Read8(A, N, L) ==
    /\ Live
    /\ \E a \in A, n \in N, lat \in L :
          Commit("read_8", NoReg, <<a, n>>, read_8(St(lat, -1), a, n))
    /\ UNCHANGED attached

Write32(A, D, L) ==
    /\ Live
    /\ \E a \in A, d \in D, lat \in L :
          Commit("write_32", NoReg, <<a, d>>, write_32(St(lat, -1), a, d))
    /\ UNCHANGED attached

Write8(A, D, L) ==
    /\ Live
    /\ \E a \in A, d \in D, lat \in L :
          Commit("write_8", NoReg, <<a, d>>, write_8(St(lat, -1), a, d))
    /\ UNCHANGED attached

\* run() over a probe that fails at its f-th access of the call
RunFailing(F) ==
    /\ Live
    /\ \E f \in F :
          Commit("run", NoReg, <<f>>, run([St(0, -1) EXCEPT !.fuse = f]))
    /\ UNCHANGED attached

CoreHaltedPoll ==
    /\ Live
    /\ Commit("core_halted", NoReg, NoVal, core_halted(St(0, -1)))
    /\ UNCHANGED attached

WaitForCoreHalted(T) ==
    /\ Live
    /\ \E timeout \in T :
          Commit("wait_for_core_halted", NoReg, <<timeout>>,
                 wait_for_core_halted(St(0, -1), timeout))
    /\ UNCHANGED attached

AvailableBreakpointUnits ==
    /\ Live
    /\ Commit("available_breakpoint_units", NoReg, NoVal,
              available_breakpoint_units(St(0, -1)))
    /\ UNCHANGED attached

SetHwBreakpoint(U, A) ==
    /\ Live
    /\ \E u \in U, a \in A :
          Commit("set_hw_breakpoint", u, a, set_hw_breakpoint(St(0, -1), u, a))
    /\ UNCHANGED attached

ClearHwBreakpoint(U) ==
    /\ Live
    /\ \E u \in U :
          Commit("clear_hw_breakpoint", u, NoVal, clear_hw_breakpoint(St(0, -1), u))
    /\ UNCHANGED attached

HwBreakpoints ==
    /\ Live
    /\ Commit("hw_breakpoints", NoReg, NoVal, hw_breakpoints(St(0, -1)))
    /\ UNCHANGED attached

\* Armv7a::new against the session state, while no instance borrows it
New ==
    /\ ~attached /\ ~Dead
    /\ LET r == new(St(0, -1))
       IN  /\ Commit("new", NoReg, NoVal, r)
           /\ attached' = (r.err = "Ok")

\* the instance goes out of scope; the session state stays
Drop ==
    /\ Live
    /\ attached' = FALSE
    /\ last' = [NoCall EXCEPT !.op = "drop"]
    /\ ops' = <<>>
    /\ UNCHANGED <<initialized, current_state, register_cache, itr_enabled,
                   num_breakpoints, overflow_checks, hw, rt>>

\* the running core enters debug state on its own between two calls
CoreHalts ==
    /\ ~Dead
    /\ ~hw.halted
    /\ \E m \in HaltReasons : hw' = EnterDebug([hw EXCEPT !.pendMoe = m])
    /\ last' = [NoCall EXCEPT !.op = "core_halts"]
    /\ ops' = <<>>
    /\ UNCHANGED <<initialized, current_state, register_cache, attached, itr_enabled,
                   num_breakpoints, overflow_checks, rt>>

----------------------------------------------------------------------------
(* Specifications.  Each draws the inputs and the timing that its claims   *)
(* are about; the operations are the same in all of them.                  *)

V1 == <<1, 32>>
V2 == <<2, 64>>

\* the core halts at once when asked to, or not during the call
NowOrNever == {-1, 0}
\* every instruction is complete at the first poll
NoLat == {0}

\* The register cache through halt and run: reads and writes of every
\* register number, either value to r0 and a value of its own to the PC.
Next ==
    \/ ReadCoreReg(RegIds, NoLat)
    \/ WriteCoreReg({0}, Vals)
    \/ WriteCoreReg({15}, {V2})
    \/ WriteCoreReg({14, 16, 17}, {V1})
    \/ Halt(Timeouts, NoLat, NowOrNever)
    \/ Run(NoLat, NowOrNever)
    \/ CoreHalts

Spec == Init /\ [][Next]_vars

\* Reset and reset-and-halt next to halt and run.
NextReset ==
    \/ ReadCoreReg({0, 15}, NoLat)
    \/ WriteCoreReg({0, 14}, {V1})
    \/ Halt(Timeouts, NoLat, NowOrNever)
    \/ Run(NoLat, NowOrNever)
    \/ Reset
    \/ ResetAndHalt(Timeouts, NoLat, NowOrNever)
    \/ OnSessionStop(NoLat)
    \/ CoreHalts

SpecReset == Init /\ [][NextReset]_vars

\* The instruction transfer engine under memory accesses that may abort,
\* with instructions that take time to complete.
NextIte ==
    \/ ReadWord32(Addrs, Lats)
    \/ WriteWord32(Addrs, {V1}, Lats)
    \/ ReadCoreReg({0, 14}, Lats)
    \/ WriteCoreReg({0}, {V2})
    \/ Halt(Timeouts, Lats, NowOrNever)
    \/ Run(Lats, NowOrNever)
    \/ CoreHalts

SpecIte == Init /\ [][NextIte]_vars

\* Single-stepping, the core halting again at any time after it resumes.
NextStep ==
    \/ Step(Lats, HaltDelays)
    \/ ReadCoreReg({0, 15}, NoLat)
    \/ WriteCoreReg({14}, {V1})
    \/ Halt(Timeouts, NoLat, NowOrNever)
    \/ Run(NoLat, NowOrNever)
    \/ CoreHalts

SpecStep == Init /\ [][NextStep]_vars

\* byte addresses inside the two mapped words, and one beyond 32 bits
ByteAddrs == {<<0, wrapping_add(RamBase, 1)>>, <<0, wrapping_add(RamBase, 6)>>,
              <<1, wrapping_add(RamBase, 1)>>}
WordAddrs == {<<0, RamBase>>, <<1, RamBase>>}
Bytes == {17, 34}
ByteData == {<<17, 34>>}
WordData == {<<V1, V2>>}

\* Word and byte memory accesses, and a breakpoint address, on a core that
\* is halted or running.
NextMem ==
    \/ ReadWord32(WordAddrs, NoLat)
    \/ WriteWord32(WordAddrs, {V1}, NoLat)
    \/ ReadWord8(ByteAddrs, NoLat)
    \/ WriteWord8(ByteAddrs, Bytes, NoLat)
    \/ SetHwBreakpoint({0}, WordAddrs)
    \/ Halt({MaxHaltDelay + 1}, NoLat, {0})

SpecMem == Init /\ [][NextMem]_vars

\* Bulk accesses of two elements.
NextBulk ==
    \/ Read32({<<0, RamBase>>}, {2}, NoLat)
    \/ Write32({<<0, RamBase>>}, WordData, NoLat)
    \/ Read8(ByteAddrs, {2}, NoLat)
    \/ Write8(ByteAddrs, ByteData, NoLat)
    \/ Halt({MaxHaltDelay + 1}, NoLat, {0})
    \/ Run(NoLat, {-1})

SpecBulk == Init /\ [][NextBulk]_vars

\* addresses of a 64-bit access: both words mapped, the second word not
\* mapped, beyond 32 bits
WideAddrs == {<<0, RamBase>>, <<0, wrapping_add(RamBase, 4)>>, <<1, RamBase>>}
WideData == {<<V2, V1>>, <<V1, V1>>}

\* 64-bit accesses.
NextWide ==
    \/ ReadWord64(WideAddrs, NoLat)
    \/ WriteWord64(WideAddrs, WideData, NoLat)
    \/ Halt({MaxHaltDelay + 1}, NoLat, {0})
    \/ Run(NoLat, {-1})

SpecWide == Init /\ [][NextWide]_vars

\* Resuming with several dirty slots, the core taking time to restart.
NextRun ==
    \/ WriteCoreReg({0, 14}, {V1})
    \/ WriteCoreReg({15}, {V2})
    \/ Run(Lats, NowOrNever)
    \/ Halt({MaxHaltDelay + 1}, Lats, {0})
    \/ CoreHalts

SpecRun == Init /\ [][NextRun]_vars

BpAddrs == {<<0, RamBase>>, <<0, wrapping_add(RamBase, 4)>>}

\* The breakpoint units, on a core that is halted or running.
NextBp ==
    \/ SetHwBreakpoint(Units, BpAddrs)
    \/ ClearHwBreakpoint(Units)
    \/ HwBreakpoints
    \/ AvailableBreakpointUnits
    \/ Halt({MaxHaltDelay + 1}, NoLat, {0})
    \/ Run(NoLat, {-1})

SpecBp == Init /\ [][NextBp]_vars

\* Construction against a fresh session state, instances that come and go,
\* and the operations that do not touch the core.
NextNew ==
    \/ New
    \/ Drop
    \/ Status
    \/ ReadCoreReg({0, 15}, NoLat)
    \/ WriteCoreReg({0, 14, 16}, {V1})
    \/ Halt(Timeouts, NoLat, NowOrNever)
    \/ Run(NoLat, NowOrNever)
    \/ OnSessionStop(NoLat)
    \/ CoreHalts

SpecNew == InitFresh /\ [][NextNew]_vars


\* Reads of the PC near the top of the address space, in either build
\* (with or without integer-overflow checks).
PcTop == <<65535, 65532>>

InitBuild ==
    /\ overflow_checks \in BOOLEAN
    /\ InitAttached(TRUE)

NextPc ==
    \/ ReadCoreReg({0, 15}, Lats)
    \/ WriteCoreReg({15}, {PcTop, V2})
    \/ WriteCoreReg({0}, {V1})
    \/ OnSessionStop(NoLat)
    \/ Run(NoLat, NowOrNever)
    \/ Halt({MaxHaltDelay + 1}, NoLat, {0})

SpecPc == InitBuild /\ [][NextPc]_vars

\* The halt observations next to run, halt and reads, on a core that
\* halts on its own.
NextObs ==
    \/ CoreHaltedPoll
    \/ WaitForCoreHalted(Timeouts)
    \/ Status
    \/ ReadCoreReg({0}, NoLat)
    \/ ReadWord32({<<0, RamBase>>}, NoLat)
    \/ Run(NoLat, NowOrNever)
    \/ Halt({MaxHaltDelay + 1}, NoLat, {0})
    \/ CoreHalts

SpecObs == Init /\ [][NextObs]_vars

\* run() over a probe that fails during or after the write-back.
Fuses == {2, 5, 7}

NextFail ==
    \/ WriteCoreReg({0, 14}, {V1})
    \/ WriteCoreReg({15}, {V2})
    \/ ReadCoreReg({0, 15}, NoLat)
    \/ RunFailing(Fuses)
    \/ Run(NoLat, NowOrNever)
    \/ Halt({MaxHaltDelay + 1}, NoLat, {0})

SpecFail == Init /\ [][NextFail]_vars

\* The breakpoint operations with unit indices up to one beyond the last
\* unit the core has.
UnitIndices == 0 .. Brps + 1

NextUnit ==
    \/ SetHwBreakpoint(UnitIndices, BpAddrs)
    \/ ClearHwBreakpoint(UnitIndices)
    \/ HwBreakpoints
    \/ AvailableBreakpointUnits

SpecUnit == Init /\ [][NextUnit]_vars

----------------------------------------------------------------------------
(* Properties of the register cache (specification Spec)                   *)

\* slot i of the cache holds a value still to be written to the core
Dirty(cache, i) == cache[i + 1].some /\ cache[i + 1].dirty

\* the controller and the core agree that the core is halted
CoreHalted == is_halted(current_state) /\ hw.halted

\* the call logged the write of value val to debug register reg
Wrote(log, reg, val) ==
    \E k \in 1 .. Len(log) : log[k].rw = "W" /\ log[k].reg = reg /\ log[k].val = val

\* C1: for r in 0..=14 and every v, starting from a halted core, after
\* write_core_reg(r, v); run(); halt(); a following read_core_reg(r)
\* returns v.
C1_RoundTrip ==
    rt.phase = 4 => last.err = "Ok" /\ last.ret = rt.val

\* C2: if slots 0 and 15 are both dirty when run() performs writeback, then
\* when the core resumes its R0 holds the value of slot 0 and its PC the
\* value of slot 15.
C2_R0SurvivesPcWrite ==
    [][(/\ CoreHalted
        /\ Dirty(register_cache, 0) /\ Dirty(register_cache, 15)
        /\ last'.op = "run" /\ last'.err = "Ok")
       => /\ hw'.regs[0] = register_cache[1].val
          /\ ~hw'.halted => hw'.regs[15] = register_cache[16].val]_vars

C5_SecondReadCached ==
    [][(/\ CoreHalted
        /\ last.op = "read_core_reg" /\ last.err = "Ok" /\ last.reg \in 0 .. 16
        /\ last'.op = "read_core_reg" /\ last'.reg = last.reg)
       => last'.err = "Ok" /\ last'.ret = last.ret /\ ops' = <<>>]_vars

\* the second of two successive reads of CPSR, answered without traffic
C5_Witness ==
    /\ last.op = "read_core_reg" /\ last.again /\ last.reg = 16
    /\ last.err = "Ok" /\ last.ret = RegReset(16)
    /\ ops = <<>>
    /\ is_halted(current_state)

\* C6: a dirty CPSR slot is ignored at writeback: after write_core_reg(16, v)
\* on a halted core, run() (and on_session_stop()) completes without
\* failing, and run() goes on to write the restart request.
C6_DirtyCpsrIgnored ==
    [][(/\ CoreHalted /\ Dirty(register_cache, 16)
        /\ last'.op \in {"run", "on_session_stop"})
       => /\ last'.err = "Ok"
          /\ last'.op = "run" => Wrote(ops', "DBGDRCR", [Dbgdrcr0 EXCEPT !.rrq = TRUE])]_vars

----------------------------------------------------------------------------
(* Properties of halt and reset (specification SpecReset)                  *)

\* C3 as stated: after any successful halt(), reset() or reset_and_halt(),
\* every one of the 17 register-cache slots is empty.
C3_CacheEmptyAfterHaltOrReset ==
    (last.op \in {"halt", "reset", "reset_and_halt"} /\ last.err = "Ok")
        => register_cache = EmptyCache

\* the cache after the PC has been read into an empty cache: the PC in slot
\* 15, clean, R0 in slot 0, dirty, nothing else
HoldsR0AndPc(cache, pc, r0) ==
    /\ cache[16] = Some(pc, FALSE)
    /\ cache[1] = Some(r0, TRUE)
    /\ \A i \in 1 .. 14 \cup {16} : cache[i + 1] = None

\* C3, amended: after a successful reset() every slot is empty; after a
\* successful reset_and_halt(), or a successful halt() called while
\* current_state is not Halted, slot 15 holds the returned PC (clean), slot
\* 0 holds the value R0 had when the core halted (dirty), and every other
\* slot is empty; a halt() called while current_state is Halted leaves every
\* slot other than 0 and 15 as it was.
C3_CacheAfterHaltOrReset ==
    [][last'.err = "Ok"
       => /\ last'.op = "reset" => register_cache' = EmptyCache
          /\ last'.op = "reset_and_halt"
                => HoldsR0AndPc(register_cache', last'.ret, RegReset(0))
          /\ (last'.op = "halt" /\ ~is_halted(current_state))
                => HoldsR0AndPc(register_cache', last'.ret, hw.regs[0])
          /\ (last'.op = "halt" /\ is_halted(current_state))
                => \A i \in 1 .. 14 \cup {16} : register_cache'[i + 1] = register_cache[i + 1]]_vars

\* a halt() of a core that run() had resumed: the cache holds R0 and the PC only
C3_Witness ==
    /\ last.op = "halt" /\ last.err = "Ok"
    /\ HoldsR0AndPc(register_cache, last.ret, RegReset(0))
    /\ Wrote(ops, "DBGDRCR", [Dbgdrcr0 EXCEPT !.hrq = TRUE])
    /\ hw.regs[14] = V1

----------------------------------------------------------------------------
(* Properties of the instruction transfer engine (specification SpecIte)   *)

\* the writes of the call to the registers that drive the transfer engine
IteWrites(log) ==
    {k \in 1 .. Len(log) :
        log[k].rw = "W" /\ log[k].reg \in {"DBGDTRRX", "DBGITR", "DBGDSCR"}}

C8_NotHaltedBeforeAnyWrite ==
    [][(~is_halted(current_state)
        /\ last'.op \in {"read_core_reg", "read_word_32", "write_word_32"})
       => /\ last'.err = "NotHalted" \/ ops' = <<>>
          /\ IteWrites(ops') = {}]_vars

----------------------------------------------------------------------------
(* Properties of step (specification SpecStep)                             *)

\* C9: step() on a halted core: whenever the core halts again within the
\* wait, step returns Ok with the PC read from the core after that halt, for
\* every interleaving of the re-halt with the controller's DBGDSCR reads.
C9_StepReturnsPc ==
    [][(CoreHalted /\ last'.op = "step" /\ hw'.halted)
       => last'.err = "Ok" /\ last'.ret = hw'.regs[15]]_vars

\* C10: after step() returns, whether Ok or Err, DBGBVR[last] and
\* DBGBCR[last] hold the values they had before the step.
C10_StepRestoresBreakpoint ==
    [][(CoreHalted /\ last'.op = "step" /\ last'.err \notin {"Panic", "Hang"})
       => hw'.bvr = hw.bvr /\ hw'.bcr = hw.bcr]_vars

----------------------------------------------------------------------------
(* Further properties of halt (specifications SpecReset and Spec)          *)

\* the one access of a status refresh
IsDscrRead(e) == e.rw = "R" /\ e.reg = "DBGDSCR"

\* C11 as stated: halt() called when current_state is already Halted writes
\* no halt request, leaves the register cache exactly as it was, and its
\* only memory-interface access is the DBGDSCR status read.
C11_HaltWhenHaltedNoOp ==
    [][(is_halted(current_state) /\ last'.op = "halt")
       => /\ register_cache' = register_cache
          /\ Len(ops') = 1 /\ IsDscrRead(ops'[1])]_vars

\* C11, amended: halt() called when current_state is already Halted writes
\* nothing to DBGDRCR and does not reset the cache; its first access is the
\* DBGDSCR status read, after which it reads the PC with read_core_reg: with
\* the PC cached there is no further access, the cache is left exactly as
\* it was and the cached PC is returned; otherwise the PC is read from the
\* core, which changes no slot other than 0 and 15.
C11_HaltWhenHalted ==
    [][(is_halted(current_state) /\ last'.op = "halt")
       => /\ \A k \in 1 .. Len(ops') : ops'[k].reg # "DBGDRCR"
          /\ ops' # <<>> /\ IsDscrRead(ops'[1])
          /\ \A i \in 1 .. 14 \cup {16} : register_cache'[i + 1] = register_cache[i + 1]
          /\ register_cache[16].some
                => /\ Len(ops') = 1
                   /\ register_cache' = register_cache
                   /\ last'.err = "Ok" /\ last'.ret = register_cache[16].val
          /\ (~register_cache[16].some /\ last'.err = "Ok")
                => /\ Len(ops') > 1
                   /\ register_cache'[16] = Some(last'.ret, FALSE)
                   /\ register_cache'[1].some]_vars

\* a halt() of an already halted core that had to read the PC from the core
C11_Witness ==
    /\ last.op = "halt" /\ last.err = "Ok"
    /\ ~Wrote(ops, "DBGDRCR", [Dbgdrcr0 EXCEPT !.hrq = TRUE])
    /\ IsDscrRead(ops[1]) /\ Len(ops) > 1
    /\ Wrote(ops, "DBGITR", build_mov(0, 15))
    /\ register_cache[16] = Some(last.ret, FALSE)

\* C12: read_core_reg and write_core_reg with a register index outside
\* 0..=16 fail with InvalidRegisterNumber(index), issue no memory-interface
\* access and leave the register cache unchanged.
C12_InvalidRegisterNumber ==
    [][(last'.op \in {"read_core_reg", "write_core_reg"} /\ last'.reg \notin 0 .. 16)
       => /\ last'.err = "InvalidRegisterNumber" /\ last'.info = <<last'.reg>>
          /\ ops' = <<>>
          /\ register_cache' = register_cache]_vars

\* a write of register 17 that was refused while other writes are pending
C12_Witness ==
    /\ last.op = "write_core_reg" /\ last.reg = 17
    /\ last.err = "InvalidRegisterNumber" /\ last.info = <<17>>
    /\ ops = <<>>
    /\ Dirty(register_cache, 16)

\* C14: halt with a zero Duration, called when the core is not already
\* halted, returns a Timeout error (never Ok), without resetting the register
\* cache or changing current_state.
C14_HaltZeroTimeout ==
    [][(~is_halted(current_state) /\ last'.op = "halt" /\ last'.arg = <<0>>)
       => /\ last'.err = "Timeout"
          /\ register_cache' = register_cache
          /\ current_state' = current_state]_vars

\* a halt with a zero Duration that timed out on a core that had in fact
\* halted, a pending register write still in the cache
C14_Witness ==
    /\ last.op = "halt" /\ last.arg = <<0>> /\ last.err = "Timeout"
    /\ ops = <<[rw |-> "W", reg |-> "DBGDRCR", idx |-> 0,
                val |-> [Dbgdrcr0 EXCEPT !.hrq = TRUE]]>>
    /\ current_state = Running /\ hw.halted
    /\ Dirty(register_cache, 14)

----------------------------------------------------------------------------
(* Memory accesses (specifications SpecIte, SpecMem and SpecBulk) *)

\* C15: on a halted core, a read_word_32 of the address a successful
\* write_word_32 has just written returns the value written.
\* The write itself succeeds on a halted core when the address is mapped.
C15_WordRoundTrip ==
    [][/\ (is_halted(current_state) /\ hw.halted /\ last'.op = "write_word_32"
           /\ last'.arg[1][1] = 0 /\ last'.arg[1][2] \in MemAddrs)
          => last'.err = "Ok" /\ hw'.mem[last'.arg[1][2]] = last'.arg[2]
       /\ (last.op = "write_word_32" /\ last.err = "Ok"
           /\ last'.op = "read_word_32" /\ last'.arg = last.arg[1])
          => last'.err = "Ok" /\ last'.ret = last.arg[2]]_vars

\* the read has returned the word the write before it stored
C15_Witness ==
    /\ last.op = "read_word_32" /\ last.arg = <<0, RamBase>>
    /\ last.err = "Ok" /\ last.ret = V1 /\ hw.mem[RamBase] = V1

\* the byte of target memory at a 32-bit address
MemByte(h, address) == to_le_bytes(h.mem[word_start(address)[2]])[byte_offset(address) + 1]

\* the address argument of a memory access or of set_hw_breakpoint
AddressOf(c) ==
    IF c.op \in {"write_word_32", "write_word_8", "write_32", "write_8", "read_32", "read_8",
                   "write_word_64"}
    THEN c.arg[1] ELSE c.arg

Mapped(address) == address[1] = 0 /\ word_start(address)[2] \in MemAddrs

\* C16: on a halted core, a read_word_8 of the address a successful
\* write_word_8 has just written returns the byte written, whatever the
\* alignment of the address.  The write itself succeeds when the address is
\* mapped, and leaves the other three bytes of the word as they were.
C16_ByteRoundTrip ==
    [][/\ (is_halted(current_state) /\ hw.halted /\ last'.op = "write_word_8"
           /\ Mapped(last'.arg[1]))
          => /\ last'.err = "Ok"
             /\ MemByte(hw', last'.arg[1]) = last'.arg[2]
             /\ \A k \in 0 .. 3 :
                   LET b == add_u64(word_start(last'.arg[1]), k)
                   IN  b # last'.arg[1] => MemByte(hw', b) = MemByte(hw, b)
       /\ (last.op = "write_word_8" /\ last.err = "Ok"
           /\ last'.op = "read_word_8" /\ last'.arg = last.arg[1])
          => last'.err = "Ok" /\ last'.ret = last.arg[2]]_vars

\* the byte just written at an unaligned address has been read back
C16_Witness ==
    /\ last.op = "read_word_8" /\ last.arg = <<0, wrapping_add(RamBase, 6)>>
    /\ last.err = "Ok" /\ last.ret = 34
    /\ MemByte(hw, last.arg) = 34

\* C17: a successful write_8(addr, data) stores data[i] at byte address
\* addr + i for every i.
C17_Write8Consecutive ==
    [][(last'.op = "write_8" /\ last'.err = "Ok")
       => \A i \in 1 .. Len(last'.arg[2]) :
             LET b == add_u64(last'.arg[1], i - 1)
             IN  Mapped(b) => MemByte(hw', b) = last'.arg[2][i]]_vars

\* C13: read_word_32, write_word_32, read_word_8, write_word_8 and
\* set_hw_breakpoint with an address above 0xFFFF_FFFF fail with
\* InvalidAddress, issue no memory-interface access and leave the register
\* cache as it was.
C13_InvalidAddress ==
    [][(last'.op \in {"read_word_32", "write_word_32", "read_word_8", "write_word_8",
                      "set_hw_breakpoint"}
        /\ AddressOf(last')[1] > 0)
       => /\ last'.err = "InvalidAddress"
          /\ ops' = <<>>
          /\ register_cache' = register_cache]_vars

\* a write beyond 32 bits has been refused on a halted core whose cache
\* holds no R0 yet
C13_Witness ==
    /\ last.op = "write_word_32" /\ last.arg[1] = <<1, RamBase>>
    /\ last.err = "InvalidAddress"
    /\ is_halted(current_state) /\ hw.halted
    /\ ~register_cache[1].some

----------------------------------------------------------------------------
(* Hardware breakpoints (specification SpecBp) *)

LogW(reg, idx, val) == [rw |-> "W", reg |-> reg, idx |-> idx, val |-> val]

IsDidrRead(e) == e.rw = "R" /\ e.reg = "DBGDIDR"

\* Option<u64> entries of the list hw_breakpoints returns
NoBp == <<>>
SomeBp(a) == <<a>>

\* C18: set_hw_breakpoint(u, a) of a unit u below the unit count and a
\* 32-bit a writes a to DBGBVR[u] and then the control word with E = 1,
\* PMC = 0b11, HMC = 1, BAS = 0b1111, BT = 0 to DBGBCR[u]; a hw_breakpoints()
\* that follows has Some(a) at index u.
C18_SetThenListed ==
    [][/\ (last'.op = "set_hw_breakpoint" /\ last'.reg \in Units /\ last'.arg[1] = 0)
          => /\ last'.err = "Ok"
             /\ ops' = <<LogW("DBGBVR", last'.reg, last'.arg[2]),
                         LogW("DBGBCR", last'.reg,
                              [e |-> TRUE, pmc |-> 3, hmc |-> TRUE, bas |-> 15, bt |-> 0])>>
       /\ (last.op = "set_hw_breakpoint" /\ last.err = "Ok" /\ last.reg \in Units
           /\ last'.op = "hw_breakpoints")
          => /\ last'.err = "Ok"
             /\ last'.ret[last.reg + 1] = SomeBp(last.arg)]_vars

\* the breakpoint just set on the last unit is listed
C18_Witness ==
    /\ last.op = "hw_breakpoints" /\ last.err = "Ok"
    /\ last.ret[Brps + 1] = SomeBp(<<0, wrapping_add(RamBase, 4)>>)
    /\ hw.bvr[Brps] = wrapping_add(RamBase, 4) /\ hw.bcr[Brps].e

\* C19: clear_hw_breakpoint(u) writes zero to DBGBVR[u] and to DBGBCR[u];
\* after set_hw_breakpoint(u, a); clear_hw_breakpoint(u) a hw_breakpoints()
\* has None at index u.
C19_ClearThenUnlisted ==
    [][/\ (last'.op = "clear_hw_breakpoint" /\ last'.reg \in Units)
          => /\ last'.err = "Ok"
             /\ ops' = <<LogW("DBGBVR", last'.reg, Zero32),
                         LogW("DBGBCR", last'.reg, Dbgbcr0)>>
       /\ (last'.op = "hw_breakpoints" /\ last'.set_then_cleared # <<>>)
          => /\ last'.err = "Ok"
             /\ last'.ret[last'.set_then_cleared[1] + 1] = NoBp]_vars

\* set, clear, hw_breakpoints on unit 0, the other unit still set
C19_Witness ==
    /\ last.op = "hw_breakpoints" /\ last.err = "Ok"
    /\ last.set_then_cleared = <<0>>
    /\ last.ret[1] = NoBp /\ last.ret[Brps + 1] # NoBp
    /\ hw.bvr[0] = Zero32 /\ hw.bcr[0] = Dbgbcr0

\* C20: hw_breakpoints() returns available_breakpoint_units() entries in
\* unit order, entry u being Some(DBGBVR[u]) when DBGBCR[u].E is set and
\* None otherwise; the count is DBGDIDR.BRPS + 1, read from DBGDIDR by the
\* first call that needs it and by no call after that.
C20_ListMatchesUnits ==
    [][/\ last'.op = "hw_breakpoints"
          => /\ last'.err = "Ok"
             /\ Len(last'.ret) = Brps + 1
             /\ \A u \in Units :
                   last'.ret[u + 1] = IF hw.bcr[u].e THEN SomeBp(<<0, hw.bvr[u]>>) ELSE NoBp
       /\ last'.op = "available_breakpoint_units"
          => last'.err = "Ok" /\ last'.ret = Brps + 1
       /\ last'.op \in {"hw_breakpoints", "available_breakpoint_units"}
          => /\ num_breakpoints' = <<Brps + 1>>
             /\ num_breakpoints = <<>>
                   => Len(SelectSeq(ops', IsDidrRead)) = 1 /\ IsDidrRead(ops'[1])
       /\ num_breakpoints # <<>>
          => /\ num_breakpoints' = num_breakpoints
             /\ SelectSeq(ops', IsDidrRead) = <<>>]_vars

\* a second hw_breakpoints that lists a set and an unset unit without
\* reading DBGDIDR
C20_Witness ==
    /\ last.op = "hw_breakpoints" /\ last.err = "Ok"
    /\ SelectSeq(ops, IsDidrRead) = <<>> /\ Len(ops) = 2 * (Brps + 1)
    /\ last.ret[1] = SomeBp(<<0, RamBase>>) /\ last.ret[Brps + 1] = NoBp
    /\ num_breakpoints = <<Brps + 1>>

----------------------------------------------------------------------------
(* Construction, status, and the frame of write_core_reg and run           *)
(* (specification SpecNew)                                                 *)

\* C21: the first construction against an uninitialised session state
\* performs exactly one DBGDSCR read, sets current_state to Halted(reason)
\* if the halted bit is set and to Running otherwise, installs a 17-slot
\* empty cache and marks the session initialised; every later construction
\* issues no access and leaves current_state and the cache unchanged.
C21_NewPollsOnce ==
    [][/\ (last'.op = "new" /\ ~attached /\ attached' /\ ~initialized)
          => /\ Len(ops') = 1 /\ IsDscrRead(ops'[1])
             /\ ops'[1].val.halted = hw.halted
             /\ current_state' = IF ops'[1].val.halted
                                 THEN Halted(halt_reason(ops'[1].val)) ELSE Running
             /\ Len(register_cache') = 17
             /\ \A i \in 1 .. 17 : ~register_cache'[i].some
             /\ initialized'
       /\ (~attached /\ attached' /\ initialized)
          => /\ last'.op = "new" /\ last'.err = "Ok"
             /\ ops' = <<>>
             /\ current_state' = current_state
             /\ register_cache' = register_cache
             /\ initialized']_vars

\* a later construction that found a halted core and a dirty slot in the
\* session state and read nothing
C21_Witness ==
    /\ last.op = "new" /\ last.err = "Ok" /\ attached
    /\ ops = <<>>
    /\ is_halted(current_state)
    /\ Dirty(register_cache, 14)

\* C22: status() issues exactly one DBGDSCR read, returns Halted(reason)
\* when the halted bit is set and Running otherwise, leaves current_state
\* equal to the value it returns, and never modifies the register cache.
C22_StatusReadsOnce ==
    [][last'.op = "status"
       => /\ last'.err = "Ok"
          /\ Len(ops') = 1 /\ IsDscrRead(ops'[1])
          /\ ops'[1].val.halted = hw.halted
          /\ last'.retcs = IF ops'[1].val.halted
                           THEN Halted(halt_reason(ops'[1].val)) ELSE Running
          /\ current_state' = last'.retcs
          /\ register_cache' = register_cache]_vars

\* status() has found the core halted at a breakpoint while current_state
\* was Running, the cache holding a dirty slot
C22_Witness ==
    /\ last.op = "status" /\ last.err = "Ok"
    /\ last.retcs = Halted("Breakpoint") /\ current_state = Halted("Breakpoint")
    /\ Dirty(register_cache, 14)
    /\ Len(ops) = 1

\* C23: write_core_reg(r, v) for r in 0..=16 sets cache slot r to
\* (v, dirty), issues no memory-interface access, and leaves every other
\* slot, current_state and the hardware (the core's registers, memory and
\* debug registers) unchanged.
C23_WriteCoreRegFrame ==
    [][(last'.op = "write_core_reg" /\ last'.reg \in 0 .. 16)
       => /\ last'.err = "Ok"
          /\ register_cache'[last'.reg + 1] = Some(last'.arg, TRUE)
          /\ \A i \in 0 .. 16 :
                i # last'.reg => register_cache'[i + 1] = register_cache[i + 1]
          /\ ops' = <<>>
          /\ current_state' = current_state
          /\ hw' = Settle(hw)]_vars

\* a write to r14 on a halted core next to a cached PC
C23_Witness ==
    /\ last.op = "write_core_reg" /\ last.reg = 14 /\ last.err = "Ok"
    /\ register_cache[15] = Some(V1, TRUE)
    /\ register_cache[16].some /\ ~register_cache[16].dirty
    /\ is_halted(current_state) /\ hw.halted
    /\ hw.regs[14] # V1

\* C24: run() called when current_state is Running is a no-op: no
\* memory-interface access, current_state and the cache unchanged.
C24_RunWhenRunning ==
    [][(current_state = Running /\ last'.op = "run")
       => /\ last'.err = "Ok"
          /\ ops' = <<>>
          /\ current_state' = current_state
          /\ register_cache' = register_cache
          /\ hw' = Settle(hw)]_vars

\* a run() that did nothing although the core had halted on its own and a
\* slot was dirty
C24_Witness ==
    /\ last.op = "run" /\ last.err = "Ok" /\ ops = <<>>
    /\ current_state = Running /\ hw.halted
    /\ Dirty(register_cache, 14)

\* C25: on_session_stop() with current_state Halted writes every dirty slot
\* back to the core and clears the cache, and writes no restart request (the
\* core stays halted); with current_state not Halted it issues no
\* memory-interface access and leaves the cache unchanged.
C25_SessionStopFlushes ==
    [][/\ (CoreHalted /\ last'.op = "on_session_stop")
          => /\ last'.err = "Ok"
             /\ register_cache' = EmptyCache
             /\ \A i \in 1 .. 14 :
                   Dirty(register_cache, i) => hw'.regs[i] = register_cache[i + 1].val
             /\ ~Wrote(ops', "DBGDRCR", [Dbgdrcr0 EXCEPT !.rrq = TRUE])
             /\ hw'.halted
       /\ (~is_halted(current_state) /\ last'.op = "on_session_stop")
          => /\ last'.err = "Ok"
             /\ ops' = <<>>
             /\ register_cache' = register_cache]_vars

----------------------------------------------------------------------------
(* Byte and 64-bit accesses (specifications SpecMem and SpecWide) *)

\* byte number k of a 32-bit word, counted from the least significant
ByteOf(w, k) == IF k < 2 THEN (w[2] \div (256 ^ k)) % 256
                ELSE (w[1] \div (256 ^ (k - 2))) % 256

\* the call issued the load (the store) of a target-memory word
IsLdc(e) == e.rw = "W" /\ e.reg = "DBGITR" /\ e.val.op = "LDC"
IsStc(e) == e.rw = "W" /\ e.reg = "DBGITR" /\ e.val.op = "STC"

\* C26: read_word_8(a) performs exactly one read_word_32, at a with its two
\* low bits cleared, and returns byte number (a mod 4) of that word in
\* little-endian order.
C26_ReadWord8 ==
    [][(CoreHalted /\ last'.op = "read_word_8" /\ Mapped(last'.arg))
       => LET a == last'.arg[2]
              aligned == <<a[1], a[2] - (a[2] % 4)>>
          IN  /\ last'.err = "Ok"
              /\ last'.ret = ByteOf(hw.mem[aligned], a[2] % 4)
              /\ Len(SelectSeq(ops', IsLdc)) = 1
              /\ Wrote(ops', "DBGDTRRX", aligned)]_vars

\* byte 2 of the word at RamBase + 4 has been read
C26_Witness ==
    /\ last.op = "read_word_8" /\ last.arg = <<0, wrapping_add(RamBase, 6)>>
    /\ last.err = "Ok" /\ last.ret = 255
    /\ hw.mem[wrapping_add(RamBase, 4)] = <<255, 5>>
    /\ Wrote(ops, "DBGDTRRX", wrapping_add(RamBase, 4))

\* the values written to DBGDTRRX during the call, in order
DtrrxWrites(log) ==
    LET IsDtrrx(e) == e.rw = "W" /\ e.reg = "DBGDTRRX"
        w == SelectSeq(log, IsDtrrx)
    IN  [k \in 1 .. Len(w) |-> w[k].val]

\* C27: read_word_64(addr) and write_word_64(addr, d) each perform exactly
\* two 32-bit accesses, first at addr carrying the low 32 bits of the value,
\* then at addr + 4 carrying the high 32 bits.
C27_WideAccessLowFirst ==
    [][/\ (CoreHalted /\ last'.op = "read_word_64"
           /\ last'.err = "Ok")
          => LET a == last'.arg[2]
             IN  /\ Len(SelectSeq(ops', IsLdc)) = 2 /\ SelectSeq(ops', IsStc) = <<>>
                 /\ DtrrxWrites(ops') = <<a, wrapping_add(a, 4)>>
                 /\ last'.ret = <<hw.mem[wrapping_add(a, 4)], hw.mem[a]>>
       /\ (CoreHalted /\ last'.op = "write_word_64"
           /\ last'.err = "Ok")
          => LET a == last'.arg[1][2]
                 d == last'.arg[2]
             IN  /\ Len(SelectSeq(ops', IsStc)) = 2 /\ SelectSeq(ops', IsLdc) = <<>>
                 /\ DtrrxWrites(ops') = <<a, d[2], wrapping_add(a, 4), d[1]>>
                 /\ hw'.mem[a] = d[2] /\ hw'.mem[wrapping_add(a, 4)] = d[1]
       /\ (CoreHalted /\ last'.op \in {"read_word_64", "write_word_64"}
           /\ Mapped(AddressOf(last')) /\ Mapped(add_u64(AddressOf(last'), 4)))
          => last'.err = "Ok"]_vars

\* a 64-bit value with different halves has been written and read back
C27_Witness ==
    /\ last.op = "read_word_64" /\ last.arg = <<0, RamBase>> /\ last.err = "Ok"
    /\ last.ret = <<V2, V1>>
    /\ hw.mem[RamBase] = V1 /\ hw.mem[wrapping_add(RamBase, 4)] = V2
    /\ DtrrxWrites(ops) = <<RamBase, wrapping_add(RamBase, 4)>>

----------------------------------------------------------------------------
(* The scratch register and the order of transfers (specifications SpecIte *)
(* and Spec)                                                               *)

\* an instruction written to DBGITR that overwrites the core's R0
ClobbersR0(e) ==
    /\ e.rw = "W" /\ e.reg = "DBGITR"
    /\ e.val.op \in {"MRC", "MOV", "MRS"} /\ e.val.rd = 0

\* C28: whenever a register or memory read or write issues an instruction
\* that overwrites the core's R0, cache slot 0 holds R0's value from before
\* the instruction, marked dirty, also when slot 0 was filled earlier by
\* read_core_reg(0).
C28_ScratchSavedDirty ==
    [][(/\ CoreHalted
        /\ last'.op \in {"read_core_reg", "read_word_32", "write_word_32"}
        /\ \E k \in 1 .. Len(ops') : ClobbersR0(ops'[k]))
       => /\ register_cache'[1].some /\ register_cache'[1].dirty
          /\ register_cache'[1].val = IF register_cache[1].some
                                      THEN register_cache[1].val ELSE hw.regs[0]]_vars

IsItrWrite(e) == e.rw = "W" /\ e.reg = "DBGITR"
IsRrqWrite(e) == e.rw = "W" /\ e.reg = "DBGDRCR" /\ e.val.rrq

\* the instructions, and the values, a write-back of the dirty slots from
\* slot i on issues when it goes through the slots in ascending order
RECURSIVE FlushInstructions(_, _)
FlushInstructions(cache, i) ==
    IF i > 15 THEN <<>>
    ELSE (IF ~Dirty(cache, i) THEN <<>>
          ELSE IF i < 15 THEN <<build_mrc(14, 0, i, 0, 5, 0)>>
          ELSE <<build_mrc(14, 0, 0, 0, 5, 0), build_bx(0)>>)
         \o FlushInstructions(cache, i + 1)

RECURSIVE FlushValues(_, _)
FlushValues(cache, i) ==
    IF i > 15 THEN <<>>
    ELSE (IF Dirty(cache, i) THEN <<cache[i + 1].val>> ELSE <<>>)
         \o FlushValues(cache, i + 1)

\* C29: a run() from a Halted state issues the transfers of all dirty slots
\* in ascending slot order and completes them before it writes DBGDRCR with
\* RRQ; after that write it only polls DBGDSCR, until restarted is set, and
\* then sets current_state from one more DBGDSCR read (status()).
C29_WritebackBeforeResume ==
    [][(is_halted(current_state) /\ last'.op = "run" /\ last'.err = "Ok")
       => /\ Len(SelectSeq(ops', IsRrqWrite)) = 1
          /\ LET k == CHOOSE j \in 1 .. Len(ops') : IsRrqWrite(ops'[j])
                 before == SubSeq(ops', 1, k - 1)
                 n == Len(ops')
                 itr == SelectSeq(before, IsItrWrite)
             IN  /\ [j \in 1 .. Len(itr) |-> itr[j].val]
                       = FlushInstructions(register_cache, 0)
                 /\ DtrrxWrites(before) = FlushValues(register_cache, 0)
                 /\ itr # <<>>
                       => IsDscrRead(before[k - 1]) /\ before[k - 1].val.instrcoml_l
                 /\ \A j \in k + 1 .. n : IsDscrRead(ops'[j])
                 /\ n >= k + 2
                 /\ ops'[n - 1].val.restarted
                 /\ \A j \in k + 1 .. n - 2 : ~ops'[j].val.restarted
                 /\ current_state' = IF ops'[n].val.halted
                                     THEN Halted(halt_reason(ops'[n].val)) ELSE Running]_vars

\* a run() that wrote back r0, r14 and the PC and had to poll twice for the
\* restart
C29_Witness ==
    /\ last.op = "run" /\ last.err = "Ok"
    /\ DtrrxWrites(ops) = <<V1, V1, V2>>
    /\ \E k \in 1 .. Len(ops) - 3 :
          /\ IsRrqWrite(ops[k])
          /\ IsDscrRead(ops[k + 1]) /\ ~ops[k + 1].val.restarted
          /\ IsDscrRead(ops[k + 2]) /\ ops[k + 2].val.restarted
    /\ current_state = Running

\* the index of the first access after access k of the log that is not a
\* DBGDSCR read with the flag clear (0: the log ends before one)
AfterPoll(log, k, flag) ==
    LET S == {j \in k + 1 .. Len(log) : ~(IsDscrRead(log[j]) /\ ~log[j].val[flag])}
    IN  IF S = {} THEN 0 ELSE CHOOSE j \in S : \A i \in S : j <= i

IsDscrWrite(e) == e.rw = "W" /\ e.reg = "DBGDSCR"
IsDtrrxWrite(e) == e.rw = "W" /\ e.reg = "DBGDTRRX"
IsDtrtxRead(e) == e.rw = "R" /\ e.reg = "DBGDTRTX"

\* C30: every DBGITR write is preceded, within the instance, by one DBGDSCR
\* read-modify-write that sets ITREN; after each DBGITR write DBGDSCR is
\* polled until instrcoml_l, and an abort bit on that snapshot is handled
\* before any other register is accessed; DBGDTRTX is read only after
\* txfull_l has been observed; for an input transfer DBGDTRRX is written
\* and rxfull_l observed before DBGITR is written.
C30_HandshakeOrder ==
    [][/\ \A k \in 1 .. Len(ops') :
            /\ IsItrWrite(ops'[k])
                  => /\ \/ itr_enabled
                        \/ \E j \in 2 .. k - 1 :
                              /\ IsDscrRead(ops'[j - 1]) /\ IsDscrWrite(ops'[j])
                              /\ ops'[j].val = [ops'[j - 1].val EXCEPT !.itren = TRUE]
                     /\ LET m == AfterPoll(ops', k, "instrcoml_l")
                        IN  IF m = 0 THEN last'.err = "Hang"
                            ELSE /\ IsDscrRead(ops'[m]) /\ ops'[m].val.instrcoml_l
                                 /\ m > k
                                 /\ (ops'[m].val.adabort_l \/ ops'[m].val.sdabort_l)
                                       => /\ Len(ops') = m + 1
                                          /\ ops'[m + 1] = LogW("DBGDRCR", 0,
                                                              [Dbgdrcr0 EXCEPT !.cse = TRUE])
                                          /\ last'.err = "DataAbort"
                     /\ ops'[k].val.op \in {"MRC", "STC"}
                           => \E j \in 1 .. k - 1 :
                                 /\ IsDtrrxWrite(ops'[j])
                                 /\ \A i \in j + 1 .. k - 1 : ~IsItrWrite(ops'[i])
            /\ IsDtrtxRead(ops'[k])
                  => k > 1 /\ IsDscrRead(ops'[k - 1]) /\ ops'[k - 1].val.txfull_l
            /\ IsDtrrxWrite(ops'[k])
                  => LET m == AfterPoll(ops', k, "rxfull_l")
                     IN  IF m = 0 THEN last'.err = "Hang"
                         ELSE IsDscrRead(ops'[m]) /\ ops'[m].val.rxfull_l
       /\ Len(SelectSeq(ops', IsDscrWrite)) <= (IF itr_enabled THEN 0 ELSE 1)
       /\ SelectSeq(ops', IsDscrWrite) # <<>> <=> (itr_enabled' /\ ~itr_enabled)]_vars

\* the first memory read of an instance: ITREN is set, the address is moved
\* to R0 and the word loaded, each instruction polled for more than once
C30_Witness ==
    /\ last.op = "read_word_32" /\ last.err = "Ok" /\ itr_enabled
    /\ Len(SelectSeq(ops, IsDscrWrite)) = 1
    /\ \E k \in 1 .. Len(ops) - 2 :
          /\ IsItrWrite(ops[k]) /\ ops[k].val.op = "LDC"
          /\ IsDscrRead(ops[k + 1]) /\ ~ops[k + 1].val.instrcoml_l
          /\ IsDscrRead(ops[k + 2]) /\ ops[k + 2].val.instrcoml_l
    /\ IsDtrtxRead(ops[Len(ops)])

----------------------------------------------------------------------------
(* reset_and_halt: the order of its steps *)

\* the first entry of the log from entry k on that is a DBGDSCR read showing
\* the core halted (0: none)
FirstHaltedRead(log, k) ==
    LET S == {j \in k .. Len(log) : IsDscrRead(log[j]) /\ log[j].val.halted}
    IN  IF S = {} THEN 0 ELSE CHOOSE j \in S : \A i \in S : j <= i

\* C31: a successful reset_and_halt performs its steps in this order:
\* reset_catch_set, reset_system, the write of DBGDRCR with HRQ = 1,
\* reset_catch_clear, the DBGDSCR polls of wait_for_core_halted and
\* status(), then, the register cache cleared, the read of the PC through
\* the instruction transfer engine; the PC it returns is the one the core
\* holds after the reset, never a cache
\* entry made before the reset.
C31_ResetAndHaltOrder ==
    [][(last'.op = "reset_and_halt" /\ last'.err = "Ok")
       => /\ Len(ops') > 6
          /\ ops'[1] = SeqCall("reset_catch_set")
          /\ ops'[2] = SeqCall("reset_system")
          /\ ops'[3] = LogW("DBGDRCR", 0, [Dbgdrcr0 EXCEPT !.hrq = TRUE])
          /\ ops'[4] = SeqCall("reset_catch_clear")
          \* wait_for_core_halted polls DBGDSCR until it shows the core
          \* halted, status() reads it once more, and only then is the PC
          \* read from the core: MOV r0, pc is issued
          /\ LET w == FirstHaltedRead(ops', 5)
             IN  /\ w >= 5
                 /\ \A j \in 5 .. w + 1 : IsDscrRead(ops'[j])
                 /\ ops'[w + 1].val.halted
                 /\ \A j \in 1 .. Len(ops') : IsItrWrite(ops'[j]) => j > w + 1
                 /\ \E j \in w + 2 .. Len(ops') :
                        ops'[j] = LogW("DBGITR", 0, build_mov(0, 15))
          /\ \A j \in 1 .. Len(ops') : ops'[j].rw = "SEQ" => j \in {1, 2, 4}
          /\ is_halted(current_state')
          /\ last'.ret = hw'.regs[15]
          /\ HoldsR0AndPc(register_cache', hw'.regs[15], RegReset(0))]_vars

\* a reset_and_halt has returned the PC of the core it reset, which is not
\* the PC the core had at reset
C31_Witness ==
    /\ last.op = "reset_and_halt" /\ last.err = "Ok"
    /\ Len(ops) > 6 /\ ops[2] = SeqCall("reset_system")
    /\ last.ret = hw.regs[15]
    /\ last.ret = ProgramNext(RegReset(15))
    /\ register_cache[16] = Some(last.ret, FALSE)

----------------------------------------------------------------------------
(* The ITR-enabled flag across a reset *)

\* C32: the ITR-enabled flag is cleared by reset: after a successful reset()
\* itr_enabled is false, and after the system reset inside a successful
\* reset_and_halt the first DBGITR write is preceded by the DBGDSCR write
\* that sets ITREN.
C32_ResetClearsItrEnabled ==
    /\ (last.op = "reset" /\ last.err = "Ok") => ~itr_enabled
    /\ (last.op = "reset_and_halt" /\ last.err = "Ok")
          => \E k \in 1 .. Len(ops) :
                /\ IsDscrWrite(ops[k]) /\ ops[k].val.itren
                /\ \A j \in 1 .. k : ~IsItrWrite(ops[j])

----------------------------------------------------------------------------
(* Termination of the polling loops *)

\* C33: every polling loop of the controller (for instrcoml_l, txfull_l,
\* rxfull_l and restarted) ends after a bounded number of DBGDSCR reads even
\* when the hardware never sets the awaited flag: no call fails to return.
C33_PollingLoopsEnd ==
    last.err # "Hang"

----------------------------------------------------------------------------
(* The PC offset *)

\* C34: read_core_reg(15) of a halted core whose PC is not cached ensures
\* slot 0 is cached dirty, executes MOV r0, pc, reads R0 through DTR-TX, and
\* for every 32-bit observed value w returns w minus 8 (modulo 2^32) and
\* caches that result in slot 15, not dirty; the subtraction does not fail,
\* w < 8 included.
C34_PcReadSubtractsEight ==
    [][(last'.op = "read_core_reg" /\ last'.reg = 15 /\ CoreHalted
        /\ ~register_cache[16].some)
       => LET w == wrapping_add(hw.regs[15], 8)
          IN  /\ last'.err = "Ok"
              /\ Wrote(ops', "DBGITR", build_mov(0, 15))
              /\ last'.ret = wrapping_sub(w, 8)
              /\ register_cache'[16] = Some(wrapping_sub(w, 8), FALSE)
              /\ Dirty(register_cache', 0)]_vars

----------------------------------------------------------------------------
(* Instructions are issued to a halted core only *)

\* whether the core is halted when entry k of the log is made, the core
\* having been halted or not (before) when the call began: the core changes
\* between running and halted at a system reset, at a restart request, and
\* as time passes, which a DBGDSCR read shows
CoreHaltedAt(log, k, before) ==
    LET E == {j \in 1 .. k - 1 :
                \/ IsDscrRead(log[j]) \/ IsRrqWrite(log[j])
                \/ log[j] = SeqCall("reset_system")}
    IN  IF E = {} THEN before
        ELSE LET j == CHOOSE j \in E : \A i \in E : i <= j
             IN  IsDscrRead(log[j]) /\ log[j].val.halted

\* C35: the controller writes DBGITR only while the hardware core is halted:
\* after any sequence of public operations (a reset() called from a Halted
\* state included) no instruction is issued to a core that is running.
C35_InstructionsOnlyWhenHalted ==
    [][\A k \in 1 .. Len(ops') :
          IsItrWrite(ops'[k]) => CoreHaltedAt(ops', k, hw.halted)]_vars

----------------------------------------------------------------------------
(* Accepted register writes reach the core *)

\* the call transferred value v to register r of the core: it wrote v to
\* DBGDTRRX and then issued MRC into r
Transferred(log, r, v) ==
    \E j, k \in 1 .. Len(log) :
        /\ j < k
        /\ IsDtrrxWrite(log[j]) /\ log[j].val = v
        /\ log[k] = LogW("DBGITR", 0, build_mrc(14, 0, r, 0, 5, 0))
        /\ \A i \in j + 1 .. k - 1 : ~IsDtrrxWrite(log[i])

\* C36: no accepted register write is silently lost: a value that
\* write_core_reg(r, v), r in 0..=14, accepted (slot r dirty with v) stays
\* pending until it is transferred to the core, which happens before run()
\* resumes the core; only reset, reset_and_halt and a later write of the same
\* register end it otherwise.  A write accepted while current_state is
\* Running and followed by halt() is no exception.
C36_NoAcceptedWriteLost ==
    [][\A r \in 0 .. 14 :
          (/\ Dirty(register_cache, r)
           /\ last'.op \notin {"reset", "reset_and_halt", "new", "drop"}
           /\ ~(last'.op = "write_core_reg" /\ last'.reg = r))
          => LET v == register_cache[r + 1].val
             IN  /\ \/ register_cache'[r + 1] = Some(v, TRUE)
                    \/ Transferred(ops', r, v)
                 /\ (\E k \in 1 .. Len(ops') : IsRrqWrite(ops'[k]))
                       => Transferred(ops', r, v)]_vars

----------------------------------------------------------------------------
(* The halt observations and the cached status *)

\* C37: the halt observations agree with the cached status: when
\* core_halted() has returned true or wait_for_core_halted() has returned
\* Ok, an immediately following read_core_reg or read_word_32 does not fail
\* with NotHalted.
C37_HaltObservedThenReadable ==
    [][(/\ last.err = "Ok"
        /\ \/ last.op = "wait_for_core_halted"
           \/ (last.op = "core_halted" /\ last.ret)
        /\ last'.op \in {"read_core_reg", "read_word_32"})
       => last'.err # "NotHalted"]_vars

----------------------------------------------------------------------------
(* A write-back that fails inside run() *)

\* C38: if the write-back fails inside run() (here: the probe fails at an
\* access of the write-back), run() returns that error without writing the
\* restart request, current_state stays Halted, and the register cache is
\* as it was, so that every dirty value is still there for a later run().
C38_FailedWritebackKeepsCache ==
    [][(/\ last'.op = "run" /\ last'.arg # NoVal
        /\ is_halted(current_state)
        /\ writeback_registers([St(0, -1) EXCEPT !.fuse = last'.arg[1]]).err
              \notin {"Ok", "Panic", "Hang"})
       => /\ last'.err
               = writeback_registers([St(0, -1) EXCEPT !.fuse = last'.arg[1]]).err
          /\ \A k \in 1 .. Len(ops') : ~IsRrqWrite(ops'[k])
          /\ hw'.halted = hw.halted
          /\ current_state' = current_state
          /\ register_cache' = register_cache]_vars

\* a run() has failed in the write-back after it had issued an instruction:
\* the core is still halted and the dirty slots are still in the cache
C38_Witness ==
    /\ last.op = "run" /\ last.err = "Transport"
    /\ is_halted(current_state) /\ hw.halted
    /\ \E k \in 1 .. Len(ops) : IsItrWrite(ops[k])
    /\ Dirty(register_cache, 0) /\ Dirty(register_cache, 14)

----------------------------------------------------------------------------
(* The frame of a byte write *)

\* C39: write_word_8(a, b) changes only the byte at address a: whatever its
\* outcome, the other three bytes of the enclosing aligned word and every
\* other word of target memory are as before; when it succeeds, the word at
\* the aligned address is the word that was there, patched with b at
\* little-endian byte index a mod 4.
C39_ByteWriteFrame ==
    [][last'.op = "write_word_8"
       => LET a == last'.arg[1]
              b == last'.arg[2]
              w == word_start(a)[2]
              k == a[2][2] % 4
          IN  /\ \A x \in MemAddrs : (a[1] # 0 \/ x # w) => hw'.mem[x] = hw.mem[x]
              /\ (a[1] = 0 /\ w \in MemAddrs)
                    => \A i \in 0 .. 3 \ {k} : ByteOf(hw'.mem[w], i) = ByteOf(hw.mem[w], i)
              /\ last'.err = "Ok"
                    => /\ a[1] = 0 /\ w \in MemAddrs
                       /\ ByteOf(hw'.mem[w], k) = b
                       /\ \E j \in 1 .. Len(ops') : IsLdc(ops'[j]) /\ \E i \in j + 1 .. Len(ops') : IsStc(ops'[i])]_vars

\* a byte has been written into the second word after the first word had
\* been changed: the first word and the rest of the second are as they were
C39_Witness ==
    /\ last.op = "write_word_8" /\ last.err = "Ok"
    /\ last.arg[1] = <<0, wrapping_add(RamBase, 6)>>
    /\ hw.mem[RamBase] # MemReset(RamBase)
    /\ ByteOf(hw.mem[wrapping_add(RamBase, 4)], 2) = last.arg[2]
    /\ ByteOf(hw.mem[wrapping_add(RamBase, 4)], 0)
          = ByteOf(MemReset(wrapping_add(RamBase, 4)), 0)
    /\ ByteOf(MemReset(wrapping_add(RamBase, 4)), 2) # last.arg[2]

----------------------------------------------------------------------------
(* Breakpoint unit indices *)

\* C40: set_hw_breakpoint(u, a) and clear_hw_breakpoint(u) with a unit index
\* u greater than or equal to available_breakpoint_units() (BRPS + 1) are
\* rejected with an error and write no debug register; with a valid u they
\* change DBGBVR and DBGBCR of unit u only.
C40_UnitIndexChecked ==
    [][last'.op \in {"set_hw_breakpoint", "clear_hw_breakpoint"}
       => IF last'.reg >= Brps + 1
          THEN /\ last'.err # "Ok"
               /\ \A k \in 1 .. Len(ops') : ops'[k].rw # "W"
          ELSE \A u \in Units \ {last'.reg} :
                  hw'.bvr[u] = hw.bvr[u] /\ hw'.bcr[u] = hw.bcr[u]]_vars
====
